---------------------------- MODULE Spec2Model ----------------------------
(***************************************************************************)
(* Sales-pipeline analytics of rv-takehome: the win-rate aggregator, the   *)
(* territory resolver and aggregator, the at-risk detector and the two     *)
(* statistics routes, each modelled from its TypeScript source.            *)
(*                                                                         *)
(* A JavaScript object used as a dictionary is a TLA+ function whose       *)
(* DOMAIN is the set of its own enumerable keys.  A JavaScript string that *)
(* is only compared (stage, transportation_mode, sales_rep) is a TLA+      *)
(* string; a string that is pattern-matched (origin_city, state code) is a *)
(* sequence of one-character strings.  A JavaScript number that is a       *)
(* quotient (winRate) is the pair of its numerator and denominator.        *)
(***************************************************************************)
EXTENDS Integers, Sequences, FiniteSets, TLC

VARIABLES
    pc,           \* position of the operation under analysis
    deals,        \* the Deal[] handed to an aggregator / held by the repository
    winRates,     \* value returned by getWinRates
    territories,  \* value returned by getTerritoryAnalytics
    originCity,   \* argument of extractStateFromOriginCity
    stateCode,    \* value returned by extractStateFromOriginCity
    territory,    \* value returned by getTerritory
    now,          \* the instant new Date() reads in the at-risk memo
    atRisk,       \* value of the atRiskDeals memo
    route,        \* which statistics route the request goes to
    findCalls,    \* number of dealRepository.find() calls of the request
    responses,    \* NextResponse values returned for the request
    stageStats,   \* outcome of getStageAnalytics
    forecast,     \* forecastData memo and totalForecast of RevenueForecasting
    velocity,     \* stageVelocityData and overallAvgVelocity memos
    riskLevels,   \* risk level shown for each row of the at-risk table
    view,         \* the view or table component on screen
    selectedTerritory, \* selectedTerritory state of TerritoryDashboard
    selectedTerritoryState, \* selectedTerritoryState of TerritoryMapVisualization
    activeFilters, \* activeFilters state of the view
    sortField,    \* the sort field of the mounted table, "none" before
    sortDirection, \* the sort direction of the mounted table
    sortedRows,   \* the rows the mounted table displays, in order
    loading,      \* loading / isLoading state of the fetching component
    error,        \* error state of the fetching component
    data,         \* deals / winRates / territoryData state of the component
    fetchResult   \* how the fetch of the component settled

vars == <<pc, deals, winRates, territories, originCity, stateCode, territory,
          now, atRisk, route, findCalls, responses, stageStats, forecast,
          velocity, riskLevels,
          view, selectedTerritory, selectedTerritoryState, activeFilters,
          sortField, sortDirection, sortedRows,
          loading, error, data, fetchResult>>

-----------------------------------------------------------------------------
(* Bounds of the model *)

\* longest deal list handed to an aggregator
MaxDeals == 3

\* longest origin_city string enumerated for the state-code pattern
MaxCityLen == 5

-----------------------------------------------------------------------------
(* JavaScript values *)

\* the null reference; no character sequence equals it, since the elements
\* of a character sequence are one-character strings
Null == <<"null">>

\* a quotient n/d kept exact
Ratio(n, d) == [num |-> n, den |-> d]

\* the number 0 as a quotient
Zero == Ratio(0, 1)

\* {} : an object literal without own properties
EmptyObject == <<>>

\* Property names every object literal inherits from Object.prototype.  The
\* inherited values are functions or objects, hence truthy, and Object.keys
\* does not list them.
ObjectPrototypeKeys ==
    {"constructor", "__proto__", "hasOwnProperty", "isPrototypeOf",
     "propertyIsEnumerable", "toLocaleString", "toString", "valueOf"}

\* !obj[key] is false: the lookup finds an own bucket or an inherited member
HasTruthy(obj, key) == key \in DOMAIN obj \/ key \in ObjectPrototypeKeys

\* if (!obj[key]) { obj[key] = init }
EnsureBucket(obj, key, init) ==
    IF HasTruthy(obj, key) THEN obj ELSE obj @@ (key :> init)

\* obj[key].field++ : an own bucket is incremented in place; when the lookup
\* resolved to an inherited member the write lands on that member and obj
\* keeps its own properties unchanged
Increment(obj, key, field) ==
    IF key \in DOMAIN obj THEN [obj EXCEPT ![key][field] = @ + 1] ELSE obj

\* number of positions of the list whose deal satisfies P
CountDeals(seq, P(_)) == Cardinality({i \in DOMAIN seq : P(seq[i])})

-----------------------------------------------------------------------------
(* src/lib/business/deals/analytics.ts : getWinRates *)

\* Fault variant of IsClosedDeal: the filter lets every deal through.
IsClosedDealAnyStage(deal) == TRUE

\* the predicate of closedDeals = deals.filter(...)
IsClosedDeal(deal) == deal.stage = "closed_won" \/ deal.stage = "closed_lost"

\* { wins: 0, losses: 0, winRate: 0 }
NewWinRateBucket == [wins |-> 0, losses |-> 0, winRate |-> Zero]

\* Fault variant of WinRatesProcessDeal: a lost deal is counted as a win.
WinRatesProcessDealLossAsWin(acc, deal) ==
    LET byMode == EnsureBucket(acc.byTransportationMode,
                               deal.transportation_mode, NewWinRateBucket)
        byRep  == EnsureBucket(acc.bySalesRep, deal.sales_rep, NewWinRateBucket)
    IN  [byTransportationMode |->
             Increment(byMode, deal.transportation_mode, "wins"),
         bySalesRep |-> Increment(byRep, deal.sales_rep, "wins")]

\* the body of closedDeals.forEach((deal) => ...)
WinRatesProcessDeal(acc, deal) ==
    LET byMode == EnsureBucket(acc.byTransportationMode,
                               deal.transportation_mode, NewWinRateBucket)
        byRep  == EnsureBucket(acc.bySalesRep, deal.sales_rep, NewWinRateBucket)
    IN  IF deal.stage = "closed_won"
        THEN [byTransportationMode |->
                  Increment(byMode, deal.transportation_mode, "wins"),
              bySalesRep |-> Increment(byRep, deal.sales_rep, "wins")]
        ELSE IF deal.stage = "closed_lost"
        THEN [byTransportationMode |->
                  Increment(byMode, deal.transportation_mode, "losses"),
              bySalesRep |-> Increment(byRep, deal.sales_rep, "losses")]
        ELSE [byTransportationMode |-> byMode, bySalesRep |-> byRep]

\* total > 0 ? wins / total : 0
WinRateOf(wins, losses) ==
    IF wins + losses > 0 THEN Ratio(wins, wins + losses) ELSE Zero

\* Object.keys(obj).forEach((k) => { obj[k].winRate = ... })
WithWinRates(obj) ==
    [k \in DOMAIN obj |->
        [obj[k] EXCEPT !.winRate = WinRateOf(obj[k].wins, obj[k].losses)]]

\* closedDeals.forEach(...) : the callback runs on the deals from the first
\* to the last
RECURSIVE WinRatesForEach(_, _)
WinRatesForEach(acc, seq) ==
    IF seq = <<>> THEN acc
    ELSE WinRatesForEach(WinRatesProcessDeal(acc, Head(seq)), Tail(seq))

getWinRates(ds) ==
    LET closedDeals == SelectSeq(ds, IsClosedDeal)
        counted == WinRatesForEach([byTransportationMode |-> EmptyObject,
                                    bySalesRep |-> EmptyObject],
                                   closedDeals)
    IN  [byTransportationMode |-> WithWinRates(counted.byTransportationMode),
         bySalesRep |-> WithWinRates(counted.bySalesRep)]

-----------------------------------------------------------------------------
(* src/lib/business/deals/territories.ts : the territory resolver *)

\* [A-Z]
UppercaseLetters ==
    {"A", "B", "C", "D", "E", "F", "G", "H", "I", "J", "K", "L", "M",
     "N", "O", "P", "Q", "R", "S", "T", "U", "V", "W", "X", "Y", "Z"}

\* characters \s matches, among those the model writes
WhitespaceChars == {" ", "\t"}

\* const STATE_TO_TERRITORY: Record<string, string>
STATE_TO_TERRITORY ==
    (<<"C", "A">> :> "Pacific") @@ (<<"W", "A">> :> "Pacific") @@
    (<<"O", "R">> :> "Pacific") @@
    (<<"C", "O">> :> "Mountain") @@ (<<"A", "Z">> :> "Mountain") @@
    (<<"N", "M">> :> "Mountain") @@ (<<"U", "T">> :> "Mountain") @@
    (<<"I", "L">> :> "Midwest") @@ (<<"M", "N">> :> "Midwest") @@
    (<<"M", "O">> :> "Midwest") @@
    (<<"N", "Y">> :> "Northeast") @@ (<<"M", "A">> :> "Northeast") @@
    (<<"F", "L">> :> "Southeast") @@ (<<"G", "A">> :> "Southeast") @@
    (<<"T", "X">> :> "Southwest") @@ (<<"N", "V">> :> "Southwest")

\* length of the longest run of whitespace that starts at position i of s
RECURSIVE WhitespaceRun(_, _)
WhitespaceRun(s, i) ==
    IF i <= Len(s) /\ s[i] \in WhitespaceChars
    THEN 1 + WhitespaceRun(s, i + 1)
    ELSE 0

\* Fault variant of MatchStateAt: the pattern has lost its $ anchor, so the
\* two letters need not end the string.
MatchStateAtUnanchored(s, i) ==
    IF s[i] # "," THEN {}
    ELSE {k \in 0..WhitespaceRun(s, i + 1) :
             /\ i + k + 2 <= Len(s)
             /\ s[i + k + 1] \in UppercaseLetters
             /\ s[i + k + 2] \in UppercaseLetters}

\* An attempt of /,\s*([A-Z]{2})$/ at position i of s: the numbers k of
\* whitespace characters \s* may consume (from its greedy maximum down to 0)
\* for which the rest of the pattern matches: two uppercase letters, then
\* the end of the input.
MatchStateAt(s, i) ==
    IF s[i] # "," THEN {}
    ELSE {k \in 0..WhitespaceRun(s, i + 1) :
             /\ i + k + 2 = Len(s)
             /\ s[i + k + 1] \in UppercaseLetters
             /\ s[i + k + 2] \in UppercaseLetters}

\* the largest element of a non-empty set of numbers
Max(S) == CHOOSE x \in S : \A y \in S : y <= x

\* the smallest element of a non-empty set of numbers
Min(S) == CHOOSE x \in S : \A y \in S : x <= y

\* originCity.match(/,\s*([A-Z]{2})$/) : the leftmost position where an
\* attempt succeeds, the greediest whitespace count there, and match[1]
extractStateFromOriginCity(city) ==
    IF city = Null \/ city = <<>> THEN Null
    ELSE LET starts == {i \in 1..Len(city) : MatchStateAt(city, i) # {}}
         IN  IF starts = {} THEN Null
             ELSE LET i == Min(starts)
                      k == Max(MatchStateAt(city, i))
                  IN  <<city[i + k + 1], city[i + k + 2]>>

\* Fault variant of getTerritory: the || "Other" fallback is missing, so an
\* unmapped state yields undefined.
getTerritoryNoFallback(code) ==
    IF code = Null \/ code = <<>> THEN "Other"
    ELSE IF code \in DOMAIN STATE_TO_TERRITORY
         THEN STATE_TO_TERRITORY[code]
         ELSE "undefined"

\* if (!stateCode) return "Other"; return STATE_TO_TERRITORY[stateCode] ||
\* "Other".  The arguments are null, "" or letter pairs, none of which names
\* a member the table inherits.
getTerritory(code) ==
    IF code = Null \/ code = <<>> THEN "Other"
    ELSE IF code \in DOMAIN STATE_TO_TERRITORY
         THEN STATE_TO_TERRITORY[code]
         ELSE "Other"

-----------------------------------------------------------------------------
(* src/lib/business/deals/territories.ts : getTerritoryAnalytics *)

\* { wins: 0, losses: 0, winRate: 0, totalValue: 0, repBreakdown: {} }
NewTerritoryStats ==
    [wins |-> 0, losses |-> 0, winRate |-> Zero, totalValue |-> 0,
     repBreakdown |-> EmptyObject]

\* { wins: 0, losses: 0 }
NewRepStats == [wins |-> 0, losses |-> 0]

\* the two initialisations at the head of deals.forEach((deal) => ...)
TerritoryInitBuckets(acc, t, deal) ==
    LET a1 == EnsureBucket(acc, t, NewTerritoryStats)
    IN  [a1 EXCEPT ![t].repBreakdown =
                       EnsureBucket(@, deal.sales_rep, NewRepStats)]

\* Fault variant of TerritoryCount: totalValue accumulates the value of
\* every deal, whatever its stage.
TerritoryCountAnyValue(acc, t, deal) ==
    LET a1 ==
          IF deal.stage = "closed_won"
          THEN [acc EXCEPT ![t].wins = @ + 1,
                           ![t].repBreakdown =
                               Increment(@, deal.sales_rep, "wins")]
          ELSE IF deal.stage = "closed_lost"
          THEN [acc EXCEPT ![t].losses = @ + 1,
                           ![t].repBreakdown =
                               Increment(@, deal.sales_rep, "losses")]
          ELSE acc
    IN  [a1 EXCEPT ![t].totalValue = @ + deal.value]

\* Fault variant of TerritoryCount: every deal that is not won is counted
\* as a loss.
TerritoryCountOpenAsLoss(acc, t, deal) ==
    LET a1 ==
          IF deal.stage = "closed_won"
          THEN [acc EXCEPT ![t].wins = @ + 1,
                           ![t].repBreakdown =
                               Increment(@, deal.sales_rep, "wins")]
          ELSE [acc EXCEPT ![t].losses = @ + 1,
                           ![t].repBreakdown =
                               Increment(@, deal.sales_rep, "losses")]
    IN  IF deal.stage = "closed_won"
        THEN [a1 EXCEPT ![t].totalValue = @ + deal.value]
        ELSE a1

\* the updates of deals.forEach((deal) => ...) that depend on deal.stage
TerritoryCount(acc, t, deal) ==
    LET a1 ==
          IF deal.stage = "closed_won"
          THEN [acc EXCEPT ![t].wins = @ + 1,
                           ![t].repBreakdown =
                               Increment(@, deal.sales_rep, "wins")]
          ELSE IF deal.stage = "closed_lost"
          THEN [acc EXCEPT ![t].losses = @ + 1,
                           ![t].repBreakdown =
                               Increment(@, deal.sales_rep, "losses")]
          ELSE acc
    IN  IF deal.stage = "closed_won"
        THEN [a1 EXCEPT ![t].totalValue = @ + deal.value]
        ELSE a1

\* the body of deals.forEach((deal) => ...)
TerritoryProcessDeal(acc, deal) ==
    LET t == getTerritory(extractStateFromOriginCity(deal.origin_city))
    IN  TerritoryCount(TerritoryInitBuckets(acc, t, deal), t, deal)

\* deals.forEach(...) : the callback runs on the deals from the first to the
\* last
RECURSIVE TerritoryForEach(_, _)
TerritoryForEach(acc, seq) ==
    IF seq = <<>> THEN acc
    ELSE TerritoryForEach(TerritoryProcessDeal(acc, Head(seq)), Tail(seq))

getTerritoryAnalytics(ds) == WithWinRates(TerritoryForEach(EmptyObject, ds))

-----------------------------------------------------------------------------
(* src/components/forecasting/AtRiskDeals.tsx : the atRiskDeals memo *)

\* const STALLED_DAYS_THRESHOLD = 21
STALLED_DAYS_THRESHOLD == 21

\* The divisor 1000 * 60 * 60 * 24 of the memo, the length of a day.
\* Timestamps are whole seconds here, getTime() / 1000, so that 60 days fit
\* the 32-bit integers of the model checker; the day is then 60 * 60 * 24.
DAY == 60 * 60 * 24

\* String.prototype.toLowerCase on the stage spellings the model writes
ToLowerCase(stage) ==
    CASE stage = "Closed_Won" -> "closed_won"
      [] stage = "CLOSED_LOST" -> "closed_lost"
      [] OTHER -> stage

\* Math.floor((now.getTime() - updatedDate.getTime()) / (1000*60*60*24));
\* \div rounds towards minus infinity, as Math.floor does
DaysSinceUpdate(deal, t) == (t - deal.updated_date) \div DAY

\* Fault variant of IsStalledOpenDeal: the threshold is compared with >.
IsStalledOpenDealStrict(deal, t) ==
    /\ ~(\/ ToLowerCase(deal.stage) = "closed_won"
         \/ ToLowerCase(deal.stage) = "closed_lost")
    /\ DaysSinceUpdate(deal, t) > STALLED_DAYS_THRESHOLD

\* the predicate of deals.filter((deal) => ...)
IsStalledOpenDeal(deal, t) ==
    /\ ~(\/ ToLowerCase(deal.stage) = "closed_won"
         \/ ToLowerCase(deal.stage) = "closed_lost")
    /\ DaysSinceUpdate(deal, t) >= STALLED_DAYS_THRESHOLD

\* { ...deal, daysSinceUpdate }
WithDaysSinceUpdate(deal, t) ==
    ("daysSinceUpdate" :> DaysSinceUpdate(deal, t)) @@ deal

\* Fault variant of InsertByDaysDesc: the comparator is a.daysSinceUpdate -
\* b.daysSinceUpdate, which sorts the least stalled deal first.
InsertByDaysAsc(sorted, x) ==
    LET before == {i \in DOMAIN sorted :
                       sorted[i].daysSinceUpdate <= x.daysSinceUpdate}
        n == Cardinality(before)
    IN  SubSeq(sorted, 1, n) \o <<x>> \o SubSeq(sorted, n + 1, Len(sorted))

\* One insertion of the stable sort under (a, b) => b.daysSinceUpdate -
\* a.daysSinceUpdate: x, which comes later in the input than every element
\* of sorted, goes behind the elements that are at least as stalled.
InsertByDaysDesc(sorted, x) ==
    LET before == {i \in DOMAIN sorted :
                       sorted[i].daysSinceUpdate >= x.daysSinceUpdate}
        n == Cardinality(before)
    IN  SubSeq(sorted, 1, n) \o <<x>> \o SubSeq(sorted, n + 1, Len(sorted))

\* the elements of seq inserted one after the other, first to last
RECURSIVE InsertAllByDaysDesc(_, _)
InsertAllByDaysDesc(sorted, seq) ==
    IF seq = <<>> THEN sorted
    ELSE InsertAllByDaysDesc(InsertByDaysDesc(sorted, Head(seq)), Tail(seq))

\* .sort((a, b) => b.daysSinceUpdate - a.daysSinceUpdate); Array.prototype
\* .sort is stable
SortByDaysDesc(seq) == InsertAllByDaysDesc(<<>>, seq)

\* the value of useMemo(() => ..., [deals]) when new Date() reads t
atRiskDeals(ds, t) ==
    IF Len(ds) = 0 THEN <<>>
    ELSE LET stalled(d) == IsStalledOpenDeal(d, t)
             filtered == SelectSeq(ds, stalled)
             mapped == [i \in DOMAIN filtered |->
                           WithDaysSinceUpdate(filtered[i], t)]
         IN  SortByDaysDesc(mapped)

-----------------------------------------------------------------------------
(* src/app/api/stats/win-rates/route.ts and                                *)
(* src/app/api/stats/territories/route.ts : GET                            *)

\* NextResponse.json(body) and NextResponse.json(body, { status })
JsonResponse(body, status) == [status |-> status, body |-> body]

\* the response of the catch block
InternalServerError ==
    JsonResponse([error |-> "Internal server error"], 500)

\* Fault variant of StatsResponse: the handler answers without the statistics
\* it computed.
StatsResponseEmpty(r, ds) == JsonResponse(EmptyObject, 200)

\* the response of the try block once find() has resolved with ds
StatsResponse(r, ds) ==
    IF r = "win-rates"
    THEN JsonResponse(getWinRates(ds), 200)
    ELSE JsonResponse(getTerritoryAnalytics(ds), 200)

-----------------------------------------------------------------------------
(* Deal records *)

Deal(stage, mode, rep, city, value, updated) ==
    [stage |-> stage, transportation_mode |-> mode, sales_rep |-> rep,
     origin_city |-> city, value |-> value, updated_date |-> updated]

\* "Los Angeles, CA" abbreviated to its shape
CityCA == <<"L", ",", " ", "C", "A">>

\* every list of at most n elements of S
SeqsUpTo(S, n) == UNION {[1..k -> S] : k \in 0..n}

\* Deals that differ in the fields getWinRates reads: stage,
\* transportation_mode and sales_rep, the last two being free text.
WinRateDeals ==
    {Deal(st, k[1], k[2], CityCA, 1, 0) :
        st \in {"closed_won", "closed_lost", "prospect", "unknown_stage"},
        k \in {<<"air", "Alice">>, <<"air", "Bob">>, <<"rail", "Alice">>,
               <<"constructor", "Bob">>, <<"rail", "toString">>}}

\* Deals that differ in the fields getTerritoryAnalytics reads: stage,
\* origin_city, sales_rep and value.  CA and WA share a territory, HI is not
\* in the table, "LA" carries no state.
CityWA == <<"S", ",", "W", "A">>

CityHI == <<"H", ",", " ", "H", "I">>

CityNoState == <<"L", "A">>

TerritoryDeals ==
    {Deal(st, "air", k[2], k[1], k[3], 0) :
        st \in {"closed_won", "closed_lost", "prospect"},
        k \in {<<CityCA, "Alice", 5>>, <<CityWA, "Alice", 3>>,
               <<CityCA, "Bob", 2>>, <<CityHI, "Bob", 7>>,
               <<CityNoState, "Alice", 1>>}}
    \cup {Deal("unknown_stage", "air", "Alice", CityCA, 5, 0),
          Deal("closed_won", "air", "constructor", CityCA, 4, 0),
          Deal("prospect", "air", "constructor", CityHI, 4, 0)}

\* origin_city strings: every string of at most MaxCityLen characters over a
\* comma, two whitespace characters, two uppercase and one lowercase letter
CityAlphabet == {",", " ", "\t", "C", "A", "a"}

CityStrings == SeqsUpTo(CityAlphabet, MaxCityLen)

\* state codes a caller hands to getTerritory directly: null, "", every pair
\* of uppercase letters and a lowercase pair
StateCodeArguments ==
    {Null, <<>>, <<"c", "a">>}
        \cup {<<x, y>> : x \in UppercaseLetters, y \in UppercaseLetters}

\* Deals that differ in the fields the at-risk memo reads: stage and
\* updated_date, the latter at the given age (in seconds) before t.
\* The ages sit on and next to the 21-day threshold and the 40- and 60-day
\* tiers; one lies in the future.
RiskDeals(t) ==
    {Deal(k[1], "air", "Alice", CityCA, 1, t - k[2]) :
        k \in {<<"prospect", STALLED_DAYS_THRESHOLD * DAY - 1>>,
               <<"prospect", STALLED_DAYS_THRESHOLD * DAY>>,
               <<"prospect", 40 * DAY>>,
               <<"prospect", 60 * DAY + 7>>,
               <<"prospect", 0>>,
               <<"prospect", 0 - 1>>,
               <<"qualified", STALLED_DAYS_THRESHOLD * DAY>>,
               <<"qualified", 22 * DAY + 500>>,
               <<"unknown_stage", 30 * DAY>>,
               <<"closed_won", 60 * DAY>>,
               <<"closed_won", 0>>,
               <<"closed_lost", STALLED_DAYS_THRESHOLD * DAY>>,
               <<"Closed_Won", 30 * DAY>>,
               <<"CLOSED_LOST", 25 * DAY>>}}

\* the instant new Date() reads in the model
NowTime == 1000 * DAY + 12345

\* deals the repository of a statistics request holds
RouteDeals ==
    {Deal("closed_won", "air", "Alice", CityCA, 5, 0),
     Deal("closed_lost", "rail", "Bob", CityHI, 3, 0),
     Deal("prospect", "air", "Bob", CityNoState, 2, 0)}

-----------------------------------------------------------------------------
(* Specifications: each draws the argument of a function from a bounded    *)
(* set and then applies the function.                                      *)

\* nothing has been computed or returned yet
NothingReturned ==
    /\ winRates = [byTransportationMode |-> EmptyObject,
                   bySalesRep |-> EmptyObject]
    /\ territories = EmptyObject
    /\ stateCode = Null
    /\ territory = "none"
    /\ atRisk = <<>>
    /\ findCalls = 0
    /\ responses = <<>>
    /\ stageStats = Null
    /\ forecast = Null
    /\ velocity = Null
    /\ riskLevels = <<>>
    /\ view = "none"
    /\ selectedTerritory = "null"
    /\ selectedTerritoryState = "null"
    /\ activeFilters = <<>>
    /\ sortField = "none"
    /\ sortDirection = "none"
    /\ sortedRows = <<>>
    /\ loading = FALSE
    /\ error = "null"
    /\ data = <<>>
    /\ fetchResult = "none"

InitWinRates ==
    /\ pc = "call"
    /\ deals \in SeqsUpTo(WinRateDeals, MaxDeals)
    /\ originCity = Null
    /\ now = 0
    /\ route = "none"
    /\ NothingReturned

CallGetWinRates ==
    /\ pc = "call"
    /\ winRates' = getWinRates(deals)
    /\ pc' = "returned"
    /\ UNCHANGED <<deals, territories, originCity, stateCode, territory,
                   now, atRisk, route, findCalls, responses>>
    /\ UNCHANGED <<stageStats, forecast, velocity>>
    /\ UNCHANGED <<riskLevels>>
    /\ UNCHANGED <<view, selectedTerritory, selectedTerritoryState, activeFilters>>
    /\ UNCHANGED <<sortField, sortDirection, sortedRows>>
    /\ UNCHANGED <<loading, error, data, fetchResult>>

NextWinRates == CallGetWinRates

SpecWinRates == InitWinRates /\ [][NextWinRates]_vars

InitTerritories ==
    /\ pc = "call"
    /\ deals \in SeqsUpTo(TerritoryDeals, MaxDeals)
    /\ originCity = Null
    /\ now = 0
    /\ route = "none"
    /\ NothingReturned

CallGetTerritoryAnalytics ==
    /\ pc = "call"
    /\ territories' = getTerritoryAnalytics(deals)
    /\ pc' = "returned"
    /\ UNCHANGED <<deals, winRates, originCity, stateCode, territory,
                   now, atRisk, route, findCalls, responses>>
    /\ UNCHANGED <<stageStats, forecast, velocity>>
    /\ UNCHANGED <<riskLevels>>
    /\ UNCHANGED <<view, selectedTerritory, selectedTerritoryState, activeFilters>>
    /\ UNCHANGED <<sortField, sortDirection, sortedRows>>
    /\ UNCHANGED <<loading, error, data, fetchResult>>

NextTerritories == CallGetTerritoryAnalytics

SpecTerritories == InitTerritories /\ [][NextTerritories]_vars

InitResolver ==
    /\ pc = "call"
    /\ originCity \in CityStrings \cup {Null}
    /\ deals = <<>>
    /\ now = 0
    /\ route = "none"
    /\ NothingReturned

\* extractStateFromOriginCity(originCity)
CallExtractState ==
    /\ pc = "call"
    /\ stateCode' = extractStateFromOriginCity(originCity)
    /\ pc' = "extracted"
    /\ UNCHANGED <<deals, winRates, territories, originCity, territory,
                   now, atRisk, route, findCalls, responses>>
    /\ UNCHANGED <<stageStats, forecast, velocity>>
    /\ UNCHANGED <<riskLevels>>
    /\ UNCHANGED <<view, selectedTerritory, selectedTerritoryState, activeFilters>>
    /\ UNCHANGED <<sortField, sortDirection, sortedRows>>
    /\ UNCHANGED <<loading, error, data, fetchResult>>

\* a caller that holds a state code rather than a city
PassStateCode ==
    /\ pc = "call"
    /\ originCity = Null
    /\ \E code \in StateCodeArguments : stateCode' = code
    /\ pc' = "coded"
    /\ UNCHANGED <<deals, winRates, territories, originCity, territory,
                   now, atRisk, route, findCalls, responses>>
    /\ UNCHANGED <<stageStats, forecast, velocity>>
    /\ UNCHANGED <<riskLevels>>
    /\ UNCHANGED <<view, selectedTerritory, selectedTerritoryState, activeFilters>>
    /\ UNCHANGED <<sortField, sortDirection, sortedRows>>
    /\ UNCHANGED <<loading, error, data, fetchResult>>

\* getTerritory(stateCode)
CallGetTerritory ==
    /\ pc \in {"extracted", "coded"}
    /\ territory' = getTerritory(stateCode)
    /\ pc' = IF pc = "extracted" THEN "resolved" ELSE "codeResolved"
    /\ UNCHANGED <<deals, winRates, territories, originCity, stateCode,
                   now, atRisk, route, findCalls, responses>>
    /\ UNCHANGED <<stageStats, forecast, velocity>>
    /\ UNCHANGED <<riskLevels>>
    /\ UNCHANGED <<view, selectedTerritory, selectedTerritoryState, activeFilters>>
    /\ UNCHANGED <<sortField, sortDirection, sortedRows>>
    /\ UNCHANGED <<loading, error, data, fetchResult>>

\* getTerritoryAnalytics of the one won deal that comes from originCity
AggregateDealOfCity ==
    /\ pc = "resolved"
    /\ deals' = <<Deal("closed_won", "air", "Alice", originCity, 1, 0)>>
    /\ territories' = getTerritoryAnalytics(deals')
    /\ pc' = "aggregated"
    /\ UNCHANGED <<winRates, originCity, stateCode, territory,
                   now, atRisk, route, findCalls, responses>>
    /\ UNCHANGED <<stageStats, forecast, velocity>>
    /\ UNCHANGED <<riskLevels>>
    /\ UNCHANGED <<view, selectedTerritory, selectedTerritoryState, activeFilters>>
    /\ UNCHANGED <<sortField, sortDirection, sortedRows>>
    /\ UNCHANGED <<loading, error, data, fetchResult>>

NextResolver ==
    \/ CallExtractState
    \/ PassStateCode
    \/ CallGetTerritory
    \/ AggregateDealOfCity

SpecResolver == InitResolver /\ [][NextResolver]_vars

InitAtRisk ==
    /\ pc = "call"
    /\ now = NowTime
    /\ deals \in SeqsUpTo(RiskDeals(now), MaxDeals)
    /\ originCity = Null
    /\ route = "none"
    /\ NothingReturned

\* the memo is evaluated for the deals the component holds
ComputeAtRiskDeals ==
    /\ pc = "call"
    /\ atRisk' = atRiskDeals(deals, now)
    /\ pc' = "returned"
    /\ UNCHANGED <<deals, winRates, territories, originCity, stateCode,
                   territory, now, route, findCalls, responses>>
    /\ UNCHANGED <<stageStats, forecast, velocity>>
    /\ UNCHANGED <<riskLevels>>
    /\ UNCHANGED <<view, selectedTerritory, selectedTerritoryState, activeFilters>>
    /\ UNCHANGED <<sortField, sortDirection, sortedRows>>
    /\ UNCHANGED <<loading, error, data, fetchResult>>

NextAtRisk == ComputeAtRiskDeals

SpecAtRisk == InitAtRisk /\ [][NextAtRisk]_vars

InitRoutes ==
    /\ pc = "request"
    /\ route \in {"win-rates", "territories"}
    /\ deals \in SeqsUpTo(RouteDeals, MaxDeals)
    /\ originCity = Null
    /\ now = 0
    /\ NothingReturned

\* await initializeDataSource() resolves and getRepository(Deal) returns
InitializeDataSourceResolves ==
    /\ pc = "request"
    /\ pc' = "initialized"
    /\ UNCHANGED <<deals, winRates, territories, originCity, stateCode,
                   territory, now, atRisk, route, findCalls, responses>>
    /\ UNCHANGED <<stageStats, forecast, velocity>>
    /\ UNCHANGED <<riskLevels>>
    /\ UNCHANGED <<view, selectedTerritory, selectedTerritoryState, activeFilters>>
    /\ UNCHANGED <<sortField, sortDirection, sortedRows>>
    /\ UNCHANGED <<loading, error, data, fetchResult>>

\* await initializeDataSource() rejects (or getRepository throws): the
\* catch block answers
InitializeDataSourceRejects ==
    /\ pc = "request"
    /\ responses' = Append(responses, InternalServerError)
    /\ pc' = "responded"
    /\ UNCHANGED <<deals, winRates, territories, originCity, stateCode,
                   territory, now, atRisk, route, findCalls>>
    /\ UNCHANGED <<stageStats, forecast, velocity>>
    /\ UNCHANGED <<riskLevels>>
    /\ UNCHANGED <<view, selectedTerritory, selectedTerritoryState, activeFilters>>
    /\ UNCHANGED <<sortField, sortDirection, sortedRows>>
    /\ UNCHANGED <<loading, error, data, fetchResult>>

\* await dealRepository.find() resolves with the deals of the repository
FindResolves ==
    /\ pc = "initialized"
    /\ findCalls' = findCalls + 1
    /\ pc' = "fetched"
    /\ UNCHANGED <<deals, winRates, territories, originCity, stateCode,
                   territory, now, atRisk, route, responses>>
    /\ UNCHANGED <<stageStats, forecast, velocity>>
    /\ UNCHANGED <<riskLevels>>
    /\ UNCHANGED <<view, selectedTerritory, selectedTerritoryState, activeFilters>>
    /\ UNCHANGED <<sortField, sortDirection, sortedRows>>
    /\ UNCHANGED <<loading, error, data, fetchResult>>

\* await dealRepository.find() rejects: the catch block answers
FindRejects ==
    /\ pc = "initialized"
    /\ findCalls' = findCalls + 1
    /\ responses' = Append(responses, InternalServerError)
    /\ pc' = "responded"
    /\ UNCHANGED <<deals, winRates, territories, originCity, stateCode,
                   territory, now, atRisk, route>>
    /\ UNCHANGED <<stageStats, forecast, velocity>>
    /\ UNCHANGED <<riskLevels>>
    /\ UNCHANGED <<view, selectedTerritory, selectedTerritoryState, activeFilters>>
    /\ UNCHANGED <<sortField, sortDirection, sortedRows>>
    /\ UNCHANGED <<loading, error, data, fetchResult>>

\* the aggregator runs on the fetched deals and its result is returned
RespondWithStats ==
    /\ pc = "fetched"
    /\ responses' = Append(responses, StatsResponse(route, deals))
    /\ pc' = "responded"
    /\ UNCHANGED <<deals, winRates, territories, originCity, stateCode,
                   territory, now, atRisk, route, findCalls>>
    /\ UNCHANGED <<stageStats, forecast, velocity>>
    /\ UNCHANGED <<riskLevels>>
    /\ UNCHANGED <<view, selectedTerritory, selectedTerritoryState, activeFilters>>
    /\ UNCHANGED <<sortField, sortDirection, sortedRows>>
    /\ UNCHANGED <<loading, error, data, fetchResult>>

NextRoutes ==
    \/ InitializeDataSourceResolves
    \/ InitializeDataSourceRejects
    \/ FindResolves
    \/ FindRejects
    \/ RespondWithStats

SpecRoutes == InitRoutes /\ [][NextRoutes]_vars

-----------------------------------------------------------------------------
(* Properties of the win-rate aggregator *)

ModeOf(deal) == deal.transportation_mode

RepOf(deal) == deal.sales_rep

\* every bucket of obj counts the won and the lost deals of ds filed under
\* its key, and carries their quotient
BucketsCountClosedDeals(obj, ds, KeyOf(_)) ==
    \A k \in DOMAIN obj :
        LET won(d)  == KeyOf(d) = k /\ d.stage = "closed_won"
            lost(d) == KeyOf(d) = k /\ d.stage = "closed_lost"
            shut(d) == KeyOf(d) = k /\ IsClosedDeal(d)
            b == obj[k]
        IN  /\ b.wins = CountDeals(ds, won)
            /\ b.losses = CountDeals(ds, lost)
            /\ b.wins + b.losses = CountDeals(ds, shut)
            /\ b.winRate.den > 0
            /\ 0 <= b.winRate.num /\ b.winRate.num <= b.winRate.den
            /\ b.wins + b.losses > 0 =>
                   b.winRate.num * (b.wins + b.losses) = b.wins * b.winRate.den
            /\ b.wins + b.losses = 0 => b.winRate.num = 0

\* C1: in the value getWinRates returns, each bucket of byTransportationMode
\* and of bySalesRep has wins = the number of closed_won deals with that key
\* and losses = the number of closed_lost deals with that key, so that wins +
\* losses is the number of closed deals of the bucket; winRate is wins / (wins
\* + losses), lies in [0,1] and is 0 when wins + losses = 0.
C1_WinRateBucketsCountClosedDeals ==
    pc = "returned" =>
        /\ BucketsCountClosedDeals(winRates.byTransportationMode, deals, ModeOf)
        /\ BucketsCountClosedDeals(winRates.bySalesRep, deals, RepOf)

\* a returned result with a bucket holding two wins and one loss next to
\* deals that are not closed
C1_Witness ==
    /\ pc = "returned"
    /\ \E k \in DOMAIN winRates.byTransportationMode :
           /\ winRates.byTransportationMode[k].wins = 2
           /\ winRates.byTransportationMode[k].losses = 1
    /\ \E r \in DOMAIN winRates.bySalesRep :
           /\ winRates.bySalesRep[r].wins = 1
           /\ winRates.bySalesRep[r].losses = 1

\* Object.keys(obj) against the keys the closed deals of ds carry
KeysAreClosedDealKeys(obj, ds, KeyOf(_)) ==
    DOMAIN obj = {KeyOf(ds[i]) : i \in {j \in DOMAIN ds : IsClosedDeal(ds[j])}}

\* C2: getWinRates leaves out every deal whose stage is neither closed_won
\* nor closed_lost: the keys of byTransportationMode are exactly the
\* transportation_mode values of the closed deals and the keys of bySalesRep
\* exactly their sales_rep values.
C2_KeysAreExactlyClosedDealKeys ==
    pc = "returned" =>
        /\ KeysAreClosedDealKeys(winRates.byTransportationMode, deals, ModeOf)
        /\ KeysAreClosedDealKeys(winRates.bySalesRep, deals, RepOf)

-----------------------------------------------------------------------------
(* Properties of the territory aggregator *)

\* the territory a deal is filed under
ResolvedTerritory(deal) ==
    getTerritory(extractStateFromOriginCity(deal.origin_city))

\* sum of value over the deals of a list
RECURSIVE SumValue(_)
SumValue(seq) ==
    IF seq = <<>> THEN 0 ELSE Head(seq).value + SumValue(Tail(seq))

\* C3: for every territory T of the value getTerritoryAnalytics returns,
\* totalValue of T is the sum of value over the closed_won deals whose
\* origin_city resolves to T; lost, open and unrecognized-stage deals add
\* nothing to it.
C3_TotalValueSumsWonDeals ==
    pc = "returned" =>
        \A t \in DOMAIN territories :
            LET wonIn(d) == ResolvedTerritory(d) = t /\ d.stage = "closed_won"
            IN  territories[t].totalValue = SumValue(SelectSeq(deals, wonIn))

\* a returned territory that holds a won deal next to a lost and an open
\* deal with a value, its totalValue being that of the won deals only
C3_Witness ==
    /\ pc = "returned"
    /\ \E t \in DOMAIN territories :
           /\ territories[t].wins = 1
           /\ territories[t].totalValue > 0
           /\ \E i, j \in DOMAIN deals :
                  /\ ResolvedTerritory(deals[i]) = t
                  /\ ResolvedTerritory(deals[j]) = t
                  /\ deals[i].stage = "closed_lost" /\ deals[i].value > 0
                  /\ deals[j].stage \notin {"closed_won", "closed_lost"}
                  /\ deals[j].value > 0

\* C4: every deal, at any stage, makes its resolved territory a key of the
\* value getTerritoryAnalytics returns and its sales_rep a key of that
\* territory's repBreakdown; a rep whose deals in the territory are all open
\* appears there with wins = 0 and losses = 0.
C4_EveryDealHasTerritoryAndRepEntry ==
    pc = "returned" =>
        \A i \in DOMAIN deals :
            LET t == ResolvedTerritory(deals[i])
                r == deals[i].sales_rep
            IN  /\ t \in DOMAIN territories
                /\ r \in DOMAIN territories[t].repBreakdown
                /\ (\A j \in DOMAIN deals :
                        (ResolvedTerritory(deals[j]) = t /\ deals[j].sales_rep = r)
                            => ~IsClosedDeal(deals[j]))
                     => territories[t].repBreakdown[r] = NewRepStats

\* C5: for every territory T of the value getTerritoryAnalytics returns,
\* wins is the number of closed_won deals resolved to T, losses the number
\* of closed_lost deals resolved to T, and winRate is wins / (wins + losses),
\* which is 0 when T has no closed deal.
C5_TerritoryWinsLossesAndRate ==
    pc = "returned" =>
        \A t \in DOMAIN territories :
            LET wonIn(d)  == ResolvedTerritory(d) = t /\ d.stage = "closed_won"
                lostIn(d) == ResolvedTerritory(d) = t /\ d.stage = "closed_lost"
                b == territories[t]
            IN  /\ b.wins = CountDeals(deals, wonIn)
                /\ b.losses = CountDeals(deals, lostIn)
                /\ b.winRate.den > 0
                /\ b.wins + b.losses > 0 =>
                       b.winRate.num * (b.wins + b.losses)
                           = b.wins * b.winRate.den
                /\ b.wins + b.losses = 0 => b.winRate.num = 0

\* a returned result with a territory of one win and one loss next to a
\* territory whose only deal is open
C5_Witness ==
    /\ pc = "returned"
    /\ \E t \in DOMAIN territories :
           territories[t].wins = 1 /\ territories[t].losses = 1
    /\ \E t \in DOMAIN territories :
           /\ territories[t].wins = 0 /\ territories[t].losses = 0
           /\ territories[t].winRate = Zero

-----------------------------------------------------------------------------
(* Properties of the territory resolver *)

\* s ends with a comma, any number of whitespace characters and two
\* uppercase letters
EndsWithCommaAndState(s) ==
    /\ s # Null
    /\ Len(s) >= 3
    /\ s[Len(s)] \in UppercaseLetters
    /\ s[Len(s) - 1] \in UppercaseLetters
    /\ \E c \in 1..(Len(s) - 2) :
           /\ s[c] = ","
           /\ \A w \in (c + 1)..(Len(s) - 2) : s[w] \in WhitespaceChars

\* C6: extractStateFromOriginCity returns a value other than null exactly
\* when its argument ends with a comma, optional whitespace and two
\* uppercase letters, and then returns those two letters; for an empty, null
\* or non-matching string it returns null.
C6_ExtractStateMatchesTrailingState ==
    pc = "extracted" =>
        /\ stateCode # Null <=> EndsWithCommaAndState(originCity)
        /\ stateCode # Null =>
               stateCode = <<originCity[Len(originCity) - 1],
                             originCity[Len(originCity)]>>

\* an extracted state code after a comma and two whitespace characters
C6_Witness ==
    /\ pc = "extracted"
    /\ stateCode = <<"C", "A">>
    /\ Len(originCity) = 5
    /\ originCity[2] \in WhitespaceChars
    /\ originCity[3] \in WhitespaceChars

\* the territory names
TerritoryNames ==
    {"Pacific", "Mountain", "Midwest", "Northeast", "Southeast", "Southwest",
     "Other"}

\* C7: getTerritory is total: for every state code or null it returns one of
\* Pacific, Mountain, Midwest, Northeast, Southeast, Southwest, Other: the
\* table entry for the 16 mapped states and "Other" for null and for every
\* other state, so that a deal whose origin_city is malformed or unmapped is
\* aggregated under "Other".
C7_GetTerritoryTotal ==
    /\ Cardinality(DOMAIN STATE_TO_TERRITORY) = 16
    /\ pc \in {"resolved", "codeResolved", "aggregated"} =>
           /\ territory \in TerritoryNames
           /\ stateCode \in DOMAIN STATE_TO_TERRITORY =>
                  territory = STATE_TO_TERRITORY[stateCode]
           /\ stateCode \notin DOMAIN STATE_TO_TERRITORY => territory = "Other"
    /\ pc = "aggregated" =>
           /\ DOMAIN territories = {territory}
           /\ ~EndsWithCommaAndState(originCity) => territory = "Other"

\* a deal whose origin_city carries no state, aggregated under "Other"
C7_Witness ==
    /\ pc = "aggregated"
    /\ originCity = <<"C", "A">>
    /\ stateCode = Null
    /\ "Other" \in DOMAIN territories

-----------------------------------------------------------------------------
(* Properties of the at-risk detector *)

\* the entries of a list
Range(seq) == {seq[i] : i \in DOMAIN seq}

\* number of positions of seq that hold x
Occurrences(seq, x) == Cardinality({i \in DOMAIN seq : seq[i] = x})

\* a deal together with the whole days since its update
Stalled(deal) ==
    [stage |-> deal.stage, transportation_mode |-> deal.transportation_mode,
     sales_rep |-> deal.sales_rep, origin_city |-> deal.origin_city,
     value |-> deal.value, updated_date |-> deal.updated_date,
     daysSinceUpdate |-> (now - deal.updated_date) \div DAY]

\* the at-risk list holds exactly the deals that satisfy Included, each with
\* its daysSinceUpdate
AtRiskHoldsExactly(Included(_)) ==
    /\ \A i \in DOMAIN deals :
           Stalled(deals[i]) \in Range(atRisk) <=> Included(deals[i])
    /\ \A e \in Range(atRisk) : \E i \in DOMAIN deals : e = Stalled(deals[i])

\* C8 as stated: a deal is listed if and only if its stage is neither
\* closed_won nor closed_lost and floor((now - updated_date) / 1 day) >= 21,
\* and each listed deal carries that floor as daysSinceUpdate.
C8_ListedIffOpenStageAndStalled ==
    pc = "returned" =>
        LET included(d) ==
                /\ d.stage \notin {"closed_won", "closed_lost"}
                /\ (now - d.updated_date) \div DAY >= 21
        IN  AtRiskHoldsExactly(included)

\* C8, amended: a deal is listed if and only if its stage, put in lower
\* case, is neither closed_won nor closed_lost and floor((now -
\* updated_date) / 1 day) >= 21: a terminal deal is left out however stale,
\* an open deal exactly 21 days stale is listed, one 20 days stale is not;
\* each listed deal carries that floor as daysSinceUpdate.
C8_ListedIffLowercasedStageOpenAndStalled ==
    pc = "returned" =>
        LET included(d) ==
                /\ ToLowerCase(d.stage) \notin {"closed_won", "closed_lost"}
                /\ (now - d.updated_date) \div DAY >= 21
        IN  AtRiskHoldsExactly(included)

\* the list computed from a stale closed deal, an open deal exactly 21 days
\* stale and an open deal one second short of 21 days: only the second is
\* listed
C8_Witness ==
    /\ pc = "returned"
    /\ Len(atRisk) = 1
    /\ atRisk[1].daysSinceUpdate = 21
    /\ \E i \in DOMAIN deals :
           deals[i].stage = "closed_won" /\ now - deals[i].updated_date = 60 * DAY
    /\ \E i \in DOMAIN deals :
           /\ deals[i].stage = "prospect"
           /\ now - deals[i].updated_date = 21 * DAY - 1

\* C9: the at-risk list is sorted by daysSinceUpdate, largest first, and is
\* a permutation of the included deals: each appears as often as in the
\* input, with its fields unchanged.
C9_AtRiskSortedPermutation ==
    pc = "returned" =>
        /\ \A i \in 1..(Len(atRisk) - 1) :
               atRisk[i].daysSinceUpdate >= atRisk[i + 1].daysSinceUpdate
        /\ \A e \in Range(atRisk) :
               LET same(d) == Stalled(d) = e
               IN  Occurrences(atRisk, e) = CountDeals(deals, same)
        /\ \A i \in DOMAIN deals :
               IsStalledOpenDeal(deals[i], now) =>
                   Stalled(deals[i]) \in Range(atRisk)

\* three listed deals that the input holds in another order than the list
C9_Witness ==
    /\ pc = "returned"
    /\ Len(atRisk) = 3
    /\ atRisk[1].daysSinceUpdate > atRisk[2].daysSinceUpdate
    /\ atRisk[2].daysSinceUpdate > atRisk[3].daysSinceUpdate
    /\ now - deals[1].updated_date < now - deals[2].updated_date
    /\ now - deals[2].updated_date < now - deals[3].updated_date

-----------------------------------------------------------------------------
(* Properties of the statistics routes *)

\* C10: for GET /api/stats/win-rates and GET /api/stats/territories, when
\* the data-source initialization or the deal fetch fails the handler
\* returns exactly one response, of status 500 and body {error: "Internal
\* server error"}, without fetching again; when the fetch succeeds it
\* returns the aggregator's result for the fetched list with status 200.
C10_RoutesAnswerOnce ==
    /\ [](/\ Len(responses) <= 1
          /\ findCalls <= 1
          /\ pc = "responded" <=> Len(responses) = 1)
    /\ [][(pc \in {"request", "initialized"} /\ pc' = "responded") =>
              /\ responses' = <<[status |-> 500,
                                 body |-> [error |-> "Internal server error"]]>>
              /\ findCalls' <= 1]_vars
    /\ [][pc = "fetched" =>
              /\ pc' = "responded"
              /\ responses'[1].status = 200
              /\ responses'[1].body =
                     IF route = "win-rates"
                     THEN getWinRates(deals)
                     ELSE getTerritoryAnalytics(deals)]_vars

\* a request answered with 500 after its one fetch failed
C10_Witness ==
    /\ pc = "responded"
    /\ findCalls = 1
    /\ responses[1].status = 500
    /\ Len(deals) = 2


-----------------------------------------------------------------------------
(* Stage analytics: src/lib/business/deals/analytics.ts                     *)

\* outcome of a call that returned v
Returned(v) == [threw |-> FALSE, value |-> v]

\* outcome of a call that ended in an uncaught TypeError
TypeError == [threw |-> TRUE]

\* one step of the reduce in getDealsByStage:
\*   if (!acc[deal.stage]) acc[deal.stage] = [];  acc[deal.stage].push(deal)
\* A stage that names a member of Object.prototype reads as truthy, no array
\* is stored, and .push is not a function of the inherited value: TypeError.
GroupPush(acc, deal) ==
    IF acc.threw THEN acc
    ELSE LET withBucket == IF HasTruthy(acc.value, deal.stage)
                           THEN acc.value
                           ELSE (deal.stage :> <<>>) @@ acc.value
         IN  IF deal.stage \in DOMAIN withBucket
             THEN Returned([withBucket EXCEPT
                                ![deal.stage] = Append(@, deal)])
             ELSE TypeError

RECURSIVE GroupForEach(_, _)
GroupForEach(acc, seq) ==
    IF seq = <<>> THEN acc
    ELSE GroupForEach(GroupPush(acc, Head(seq)), Tail(seq))

getDealsByStage(ds) == GroupForEach(Returned(EmptyObject), ds)

\* mutant: Math.floor in place of Math.round
MathFloor(num, den) == num \div den

\* Math.round of the non-negative quotient num / den: the nearest integer,
\* a half rounding up
MathRound(num, den) == (2 * num + den) \div (2 * den)

\* the entry getStageAnalytics stores for one stage
StageEntry(stageDeals, totalDeals) ==
    LET count == Len(stageDeals)
    IN  [deals |-> stageDeals, count |-> count,
         percentage |-> IF totalDeals > 0
                        THEN MathRound(100 * count, totalDeals)
                        ELSE 0]

getStageAnalytics(ds) ==
    LET dealsByStage == getDealsByStage(ds)
        totalDeals == Len(ds)
    IN  IF dealsByStage.threw THEN TypeError
        ELSE Returned(
               [totalDeals |-> totalDeals,
                stageAnalytics |->
                    [stage \in DOMAIN dealsByStage.value |->
                        StageEntry(dealsByStage.value[stage], totalDeals)]])

-----------------------------------------------------------------------------
(* Revenue forecast: src/components/forecasting/RevenueForecasting.tsx      *)
(* Money is exact: a forecast is kept in thousandths of the currency unit,  *)
(* value * probability (percent) * stage weight (tenths).                   *)

\* mutant: the stage is compared as written
StageWeightLiteral(stage) ==
    CASE stage = "prospect" -> 1
      [] stage = "qualified" -> 3
      [] stage = "proposal" -> 5
      [] stage = "negotiation" -> 7
      [] stage = "closed_won" -> 10
      [] stage = "closed_lost" -> 0
      [] OTHER -> 5

\* the switch on deal.stage.toLowerCase(), in tenths
StageWeight(stage) ==
    LET stageLower == ToLowerCase(stage)
    IN  CASE stageLower = "prospect" -> 1
          [] stageLower = "qualified" -> 3
          [] stageLower = "proposal" -> 5
          [] stageLower = "negotiation" -> 7
          [] stageLower = "closed_won" -> 10
          [] stageLower = "closed_lost" -> 0
          [] OTHER -> 5

\* deal.value * (deal.probability / 100) * stageWeight, in thousandths
Contribution(deal) == deal.value * deal.probability * StageWeight(deal.stage)

\* mutant: the deals are cut into three consecutive blocks
MonthDealsInBlocks(ds, m) ==
    LET block == (Len(ds) + 2) \div 3
    IN  SubSeq(ds, m * block + 1,
               IF (m + 1) * block < Len(ds) THEN (m + 1) * block ELSE Len(ds))

\* deals.filter((deal, index) => index % 3 === months.indexOf(month)) for the
\* month at index m of months; index is zero-based, sequences are one-based
MonthDeals(ds, m) ==
    LET positions == {i \in 1..Len(ds) : (i - 1) % 3 = m}
        RECURSIVE Pick(_)
        Pick(i) == IF i > Len(ds) THEN <<>>
                   ELSE IF i \in positions THEN <<ds[i]>> \o Pick(i + 1)
                   ELSE Pick(i + 1)
    IN  Pick(1)

RECURSIVE WeightedRevenue(_)
WeightedRevenue(monthDeals) ==
    IF monthDeals = <<>> THEN 0
    ELSE Contribution(Head(monthDeals)) + WeightedRevenue(Tail(monthDeals))

\* the row of the month m months after the next one; the month name is
\* modelled by its distance in months from the current month
ForecastRow(ds, m) ==
    LET monthDeals == MonthDeals(ds, m)
    IN  [month |-> m + 1, forecast |-> WeightedRevenue(monthDeals),
         dealCount |-> Len(monthDeals)]

forecastData(ds) ==
    IF Len(ds) = 0 THEN <<>>
    ELSE [m \in 1..3 |-> ForecastRow(ds, m - 1)]

RECURSIVE totalForecast(_)
totalForecast(rows) ==
    IF rows = <<>> THEN 0
    ELSE Head(rows).forecast + totalForecast(Tail(rows))

-----------------------------------------------------------------------------
(* Deal velocity: src/components/forecasting/DealVelocityMetrics.tsx        *)

stageOrder ==
    <<"prospect", "qualified", "proposal", "negotiation", "closed_won",
      "closed_lost">>

\* mutant: no Math.max(0, ...)
daysInStageSigned(deal) == (deal.updated_date - deal.created_date) \div DAY

\* Math.max(0, Math.floor((updated.getTime() - created.getTime()) / day))
daysInStage(deal) ==
    LET days == (deal.updated_date - deal.created_date) \div DAY
    IN  IF days > 0 THEN days ELSE 0

RECURSIVE SumDaysInStage(_)
SumDaysInStage(stageDeals) ==
    IF stageDeals = <<>> THEN 0
    ELSE daysInStage(Head(stageDeals)) + SumDaysInStage(Tail(stageDeals))

\* the row of one stage that has deals
StageVelocity(stage, stageDeals) ==
    LET totalDays == SumDaysInStage(stageDeals)
        avgDays == IF Len(stageDeals) > 0
                   THEN Ratio(totalDays, Len(stageDeals))
                   ELSE Zero
    IN  [stage |-> stage, avgDays |-> avgDays, dealCount |-> Len(stageDeals)]

\* stageOrder.filter((stage) => dealsByStage[stage])
PresentStages(dealsByStage) ==
    SelectSeq(stageOrder, LAMBDA stage : HasTruthy(dealsByStage, stage))

\* mutant: neither the early return for an empty list nor the filter on
\* stageOrder; reducing the deals of an absent stage is a TypeError
stageVelocityDataUnguarded(ds) ==
    LET dealsByStage == getDealsByStage(ds)
    IN  IF dealsByStage.threw THEN TypeError
        ELSE IF \E i \in DOMAIN stageOrder :
                    stageOrder[i] \notin DOMAIN dealsByStage.value
             THEN TypeError
             ELSE Returned([i \in DOMAIN stageOrder |->
                     StageVelocity(stageOrder[i],
                                   dealsByStage.value[stageOrder[i]])])

\* the stageVelocityData memo; its reduce groups the deals exactly as
\* getDealsByStage does
stageVelocityData(ds) ==
    IF Len(ds) = 0 THEN Returned(<<>>)
    ELSE LET dealsByStage == getDealsByStage(ds)
         IN  IF dealsByStage.threw THEN TypeError
             ELSE LET present == PresentStages(dealsByStage.value)
                  IN  Returned([i \in 1..Len(present) |->
                          StageVelocity(present[i],
                                        dealsByStage.value[present[i]])])

RECURSIVE SumAvgTimesCount(_)
\* sum + stage.avgDays * stage.dealCount; the product is a whole number
\* because the denominator of avgDays is dealCount
SumAvgTimesCount(rows) ==
    IF rows = <<>> THEN 0
    ELSE (Head(rows).avgDays.num * Head(rows).dealCount)
             \div Head(rows).avgDays.den
         + SumAvgTimesCount(Tail(rows))

RECURSIVE SumDealCount(_)
SumDealCount(rows) ==
    IF rows = <<>> THEN 0
    ELSE Head(rows).dealCount + SumDealCount(Tail(rows))

\* mutant: the days are divided by the number of rows
overallAvgVelocityPerRow(rows) ==
    IF Len(rows) = 0 THEN Zero
    ELSE Ratio(SumAvgTimesCount(rows), Len(rows))

\* the overallAvgVelocity memo
overallAvgVelocity(rows) ==
    IF Len(rows) = 0 THEN Zero
    ELSE LET totalDays == SumAvgTimesCount(rows)
             totalDeals == SumDealCount(rows)
         IN  IF totalDeals > 0 THEN Ratio(totalDays, totalDeals) ELSE Zero

-----------------------------------------------------------------------------
(* Deal records of the dashboard components                                 *)

\* a Deal with the fields the forecast and velocity components read as well
FullDeal(stage, mode, rep, city, value, updated, prob, created, close) ==
    Deal(stage, mode, rep, city, value, updated)
        @@ [probability |-> prob, created_date |-> created,
            expected_close_date |-> close]

\* Deals that differ in the one field getStageAnalytics reads, the stage
\* (free text: "unknown_stage" is not in the vocabulary, "constructor" names
\* a member of Object.prototype), and in value, to tell deals of one stage
\* apart.
StageDeals ==
    {Deal(st, "air", "Alice", CityCA, v, 0) :
        st \in {"prospect", "qualified", "closed_won", "unknown_stage",
                "constructor"},
        v \in {1, 2}}

\* longest list handed to getStageAnalytics for its percentages
MaxStageDeals == 8

\* deals that differ in nothing but the stage
PercentageDeals ==
    {Deal(st, "air", "Alice", CityCA, 1, 0) :
        st \in {"prospect", "qualified", "proposal"}}

\* longest list handed to the forecast
MaxForecastDeals == 4

\* Deals that differ in the fields the forecast reads (stage, value,
\* probability) and in expected_close_date.
ForecastDeal(stage, value, probability, close) ==
    FullDeal(stage, "air", "Alice", CityCA, value, 0, probability, 0, close)

ForecastDeals ==
    {ForecastDeal("prospect", 1000, 50, "2025-07-15"),
     ForecastDeal("prospect", 1000, 50, "2025-09-01"),
     ForecastDeal("qualified", 200, 100, "2025-08-15"),
     ForecastDeal("proposal", 300, 10, "2025-07-15"),
     ForecastDeal("negotiation", 400, 75, "2025-09-01"),
     ForecastDeal("closed_won", 500, 100, "2025-07-15"),
     ForecastDeal("closed_lost", 600, 100, "2025-08-15"),
     ForecastDeal("unknown_stage", 700, 20, "2025-09-01"),
     ForecastDeal("Closed_Won", 700, 20, "2025-09-01")}

\* Deals that differ in the fields the velocity component reads: stage,
\* created_date and updated_date (10 and a half days apart, 3 days apart, and
\* an update 5 days before the creation).
VelocityDeal(stage, created, updated) ==
    FullDeal(stage, "air", "Alice", CityCA, 1, updated, 50, created,
             "2025-07-15")

VelocityDeals ==
    {VelocityDeal(st, d[1], d[2]) :
        st \in {"prospect", "closed_won", "unknown_stage"},
        d \in {<<DAY, 11 * DAY + DAY \div 2>>, <<0, 3 * DAY>>,
               <<5 * DAY, 0>>}}
      \cup {VelocityDeal("constructor", 0, 10 * DAY)}

\* deals of every kind, for the aggregators called on one and the same list
DashboardDeals ==
    {FullDeal("closed_won", "air", "Alice", CityCA, 500, NowTime - DAY,
              100, NowTime - 11 * DAY, "2025-07-15"),
     FullDeal("closed_lost", "rail", "Bob", CityWA, 600, NowTime - DAY,
              100, NowTime - 4 * DAY, "2025-08-15"),
     FullDeal("prospect", "air", "Bob", CityHI, 1000, NowTime - 30 * DAY,
              50, NowTime - 40 * DAY, "2025-09-01"),
     FullDeal("qualified", "rail", "Alice", CityNoState, 200,
              NowTime - 25 * DAY, 100, NowTime - 26 * DAY, "2025-07-15"),
     FullDeal("unknown_stage", "air", "Alice", CityCA, 700, NowTime - DAY,
              20, NowTime - 2 * DAY, "2025-09-01")}

-----------------------------------------------------------------------------
(* Specifications of the stage analytics, the forecast and the velocity     *)

InitStages ==
    /\ pc = "call"
    /\ deals \in SeqsUpTo(StageDeals, MaxDeals)
    /\ originCity = Null
    /\ now = 0
    /\ route = "none"
    /\ NothingReturned

CallGetStageAnalytics ==
    /\ pc = "call"
    /\ stageStats' = getStageAnalytics(deals)
    /\ pc' = "returned"
    /\ UNCHANGED <<deals, winRates, territories, originCity, stateCode,
                   territory, now, atRisk, route, findCalls, responses,
                   forecast, velocity>>
    /\ UNCHANGED <<riskLevels>>
    /\ UNCHANGED <<view, selectedTerritory, selectedTerritoryState, activeFilters>>
    /\ UNCHANGED <<sortField, sortDirection, sortedRows>>
    /\ UNCHANGED <<loading, error, data, fetchResult>>

NextStages == CallGetStageAnalytics

SpecStages == InitStages /\ [][NextStages]_vars

InitPercentages ==
    /\ pc = "call"
    /\ deals \in SeqsUpTo(PercentageDeals, MaxStageDeals)
    /\ originCity = Null
    /\ now = 0
    /\ route = "none"
    /\ NothingReturned

SpecPercentages == InitPercentages /\ [][NextStages]_vars

InitForecast ==
    /\ pc = "call"
    /\ deals \in SeqsUpTo(ForecastDeals, MaxForecastDeals)
    /\ originCity = Null
    /\ now = 0
    /\ route = "none"
    /\ NothingReturned

\* a render of RevenueForecasting with the fetched deals: the forecastData
\* memo, then totalForecast
RenderRevenueForecasting ==
    /\ pc = "call"
    /\ forecast' = [forecastData |-> forecastData(deals),
                    totalForecast |-> totalForecast(forecastData(deals))]
    /\ pc' = "returned"
    /\ UNCHANGED <<deals, winRates, territories, originCity, stateCode,
                   territory, now, atRisk, route, findCalls, responses,
                   stageStats, velocity>>
    /\ UNCHANGED <<riskLevels>>
    /\ UNCHANGED <<view, selectedTerritory, selectedTerritoryState, activeFilters>>
    /\ UNCHANGED <<sortField, sortDirection, sortedRows>>
    /\ UNCHANGED <<loading, error, data, fetchResult>>

NextForecast == RenderRevenueForecasting

SpecForecast == InitForecast /\ [][NextForecast]_vars

InitVelocity ==
    /\ pc = "call"
    /\ deals \in SeqsUpTo(VelocityDeals, MaxDeals)
    /\ originCity = Null
    /\ now = 0
    /\ route = "none"
    /\ NothingReturned

\* the two memos of DealVelocityMetrics; overallAvgVelocity is not reached
\* when stageVelocityData throws
VelocityMemos(ds) ==
    LET rows == stageVelocityData(ds)
    IN  IF rows.threw THEN TypeError
        ELSE Returned([stageVelocityData |-> rows.value,
                       overallAvgVelocity |-> overallAvgVelocity(rows.value)])

RenderDealVelocityMetrics ==
    /\ pc = "call"
    /\ velocity' = VelocityMemos(deals)
    /\ pc' = "returned"
    /\ UNCHANGED <<deals, winRates, territories, originCity, stateCode,
                   territory, now, atRisk, route, findCalls, responses,
                   stageStats, forecast>>
    /\ UNCHANGED <<riskLevels>>
    /\ UNCHANGED <<view, selectedTerritory, selectedTerritoryState, activeFilters>>
    /\ UNCHANGED <<sortField, sortDirection, sortedRows>>
    /\ UNCHANGED <<loading, error, data, fetchResult>>

NextVelocity == RenderDealVelocityMetrics

SpecVelocity == InitVelocity /\ [][NextVelocity]_vars

-----------------------------------------------------------------------------
(* The six aggregators applied, one after the other, to one and the same    *)
(* deal list, as the dashboard does with the deals it fetched.              *)

InitAggregators ==
    /\ pc = "call"
    /\ deals \in SeqsUpTo(DashboardDeals, MaxDeals)
    /\ originCity = Null
    /\ now = NowTime
    /\ route = "none"
    /\ NothingReturned

AggregateWinRates ==
    /\ pc = "call"
    /\ winRates' = getWinRates(deals)
    /\ pc' = "winRates"
    /\ UNCHANGED <<deals, territories, originCity, stateCode, territory, now,
                   atRisk, route, findCalls, responses, stageStats, forecast,
                   velocity>>
    /\ UNCHANGED <<riskLevels>>
    /\ UNCHANGED <<view, selectedTerritory, selectedTerritoryState, activeFilters>>
    /\ UNCHANGED <<sortField, sortDirection, sortedRows>>
    /\ UNCHANGED <<loading, error, data, fetchResult>>

AggregateTerritories ==
    /\ pc = "winRates"
    /\ territories' = getTerritoryAnalytics(deals)
    /\ pc' = "territories"
    /\ UNCHANGED <<deals, winRates, originCity, stateCode, territory, now,
                   atRisk, route, findCalls, responses, stageStats, forecast,
                   velocity>>
    /\ UNCHANGED <<riskLevels>>
    /\ UNCHANGED <<view, selectedTerritory, selectedTerritoryState, activeFilters>>
    /\ UNCHANGED <<sortField, sortDirection, sortedRows>>
    /\ UNCHANGED <<loading, error, data, fetchResult>>

AggregateStages ==
    /\ pc = "territories"
    /\ stageStats' = getStageAnalytics(deals)
    /\ pc' = "stages"
    /\ UNCHANGED <<deals, winRates, territories, originCity, stateCode,
                   territory, now, atRisk, route, findCalls, responses,
                   forecast, velocity>>
    /\ UNCHANGED <<riskLevels>>
    /\ UNCHANGED <<view, selectedTerritory, selectedTerritoryState, activeFilters>>
    /\ UNCHANGED <<sortField, sortDirection, sortedRows>>
    /\ UNCHANGED <<loading, error, data, fetchResult>>

AggregateForecast ==
    /\ pc = "stages"
    /\ forecast' = [forecastData |-> forecastData(deals),
                    totalForecast |-> totalForecast(forecastData(deals))]
    /\ pc' = "forecast"
    /\ UNCHANGED <<deals, winRates, territories, originCity, stateCode,
                   territory, now, atRisk, route, findCalls, responses,
                   stageStats, velocity>>
    /\ UNCHANGED <<riskLevels>>
    /\ UNCHANGED <<view, selectedTerritory, selectedTerritoryState, activeFilters>>
    /\ UNCHANGED <<sortField, sortDirection, sortedRows>>
    /\ UNCHANGED <<loading, error, data, fetchResult>>

AggregateVelocity ==
    /\ pc = "forecast"
    /\ velocity' = VelocityMemos(deals)
    /\ pc' = "velocity"
    /\ UNCHANGED <<deals, winRates, territories, originCity, stateCode,
                   territory, now, atRisk, route, findCalls, responses,
                   stageStats, forecast>>
    /\ UNCHANGED <<riskLevels>>
    /\ UNCHANGED <<view, selectedTerritory, selectedTerritoryState, activeFilters>>
    /\ UNCHANGED <<sortField, sortDirection, sortedRows>>
    /\ UNCHANGED <<loading, error, data, fetchResult>>

AggregateAtRisk ==
    /\ pc = "velocity"
    /\ atRisk' = atRiskDeals(deals, now)
    /\ pc' = "done"
    /\ UNCHANGED <<deals, winRates, territories, originCity, stateCode,
                   territory, now, route, findCalls, responses, stageStats,
                   forecast, velocity>>
    /\ UNCHANGED <<riskLevels>>
    /\ UNCHANGED <<view, selectedTerritory, selectedTerritoryState, activeFilters>>
    /\ UNCHANGED <<sortField, sortDirection, sortedRows>>
    /\ UNCHANGED <<loading, error, data, fetchResult>>

NextAggregators ==
    \/ AggregateWinRates
    \/ AggregateTerritories
    \/ AggregateStages
    \/ AggregateForecast
    \/ AggregateVelocity
    \/ AggregateAtRisk

SpecAggregators == InitAggregators /\ [][NextAggregators]_vars

-----------------------------------------------------------------------------
(* Properties of the stage analytics, the forecast and the velocity         *)

\* C11: given an empty deal list, every aggregator returns a fully defined
\* empty or zero result and none throws: getWinRates two empty maps,
\* getTerritoryAnalytics an empty map, getStageAnalytics totalDeals 0 with no
\* bucket, the forecast a total of 0, the velocity component an empty list of
\* rows and the at-risk component an empty list.
C11_EmptyListGivesEmptyResults ==
    (pc = "done" /\ deals = <<>>) =>
        /\ winRates = [byTransportationMode |-> EmptyObject,
                       bySalesRep |-> EmptyObject]
        /\ territories = EmptyObject
        /\ ~stageStats.threw
        /\ stageStats.value.totalDeals = 0
        /\ DOMAIN stageStats.value.stageAnalytics = {}
        /\ forecast.totalForecast = 0
        /\ ~velocity.threw
        /\ velocity.value.stageVelocityData = <<>>
        /\ atRisk = <<>>

\* the six aggregators have all returned for the empty list
C11_Witness ==
    /\ pc = "done"
    /\ deals = <<>>
    /\ stageStats = Returned([totalDeals |-> 0,
                              stageAnalytics |-> EmptyObject])
    /\ forecast = [forecastData |-> <<>>, totalForecast |-> 0]
    /\ velocity = Returned([stageVelocityData |-> <<>>,
                            overallAvgVelocity |-> Zero])

\* every reordering of a list
PermutationsOf(seq) ==
    {[i \in DOMAIN seq |-> seq[f[i]]] : f \in Permutations(DOMAIN seq)}

\* the per-stage counts of a getStageAnalytics result
StageCounts(stats) ==
    [stage \in DOMAIN stats.value.stageAnalytics |->
        stats.value.stageAnalytics[stage].count]

\* C12: for every aggregator and every permutation of the same deal list the
\* grouped totals are identical: the win-rate and territory buckets, the
\* per-stage counts, the velocity rows, the set of at-risk deals, and the
\* forecast and dealCount of each of the three forecast months.
C12_GroupedTotalsIndependentOfOrder ==
    pc = "done" =>
        \A other \in PermutationsOf(deals) :
            /\ getWinRates(other) = winRates
            /\ getTerritoryAnalytics(other) = territories
            /\ StageCounts(getStageAnalytics(other)) = StageCounts(stageStats)
            /\ VelocityMemos(other) = velocity
            /\ Range(atRiskDeals(other, now)) = Range(atRisk)
            /\ forecastData(other) = forecast.forecastData

\* the positions of a list of n deals whose zero-based index is m modulo 3
PositionsOfMonth(n, m) == {i \in 1..n : (i - 1) % 3 = m}

\* sum of f over a finite set of positions
RECURSIVE SumOver(_, _)
SumOver(S, f) ==
    IF S = {} THEN 0
    ELSE LET i == CHOOSE j \in S : TRUE
         IN  f[i] + SumOver(S \ {i}, f)

\* the list with every expected_close_date replaced by one date
WithCloseDate(ds, date) ==
    [i \in DOMAIN ds |-> [ds[i] EXCEPT !.expected_close_date = date]]

ForecastIsWeightedSum(Weight(_)) ==
    pc = "returned" =>
        LET rows == forecast.forecastData
            n == Len(deals)
            share == [i \in 1..n |-> deals[i].value * deals[i].probability
                                        * Weight(deals[i].stage)]
        IN  /\ \A m \in DOMAIN rows :
                   rows[m].forecast = SumOver(PositionsOfMonth(n, m - 1), share)
            /\ forecast.totalForecast = SumOver(1..n, share)
            /\ forecast.totalForecast
                   = SumOver(DOMAIN rows,
                             [m \in DOMAIN rows |-> rows[m].forecast])

\* C15 as stated: each deal contributes value * (probability / 100) *
\* stageWeight, the weight being 0.1 for prospect, 0.3 for qualified, 0.5 for
\* proposal, 0.7 for negotiation, 1.0 for closed_won, 0.0 for closed_lost and
\* 0.5 for every stage value that is not one of those six; a month's forecast
\* is the sum over its deals and the total the sum over the three months.
C15_ContributionByLiteralStage ==
    ForecastIsWeightedSum(StageWeightLiteral)

\* C15 amended: the same, the weight being chosen by the lowercased stage, so
\* that 0.5 is the weight of the stage values whose lowercased form is not one
\* of the six.
C15_ContributionByLowercasedStage ==
    ForecastIsWeightedSum(LAMBDA stage : StageWeightLiteral(ToLowerCase(stage)))

\* a won deal spelt "Closed_Won" counts in full, an unrecognized stage by half
C15_Witness ==
    /\ pc = "returned"
    /\ Len(deals) = 2
    /\ deals[1].stage = "Closed_Won"
    /\ deals[2].stage = "unknown_stage"
    /\ forecast.forecastData[1].forecast = 700 * 20 * 10
    /\ forecast.forecastData[2].forecast = 700 * 20 * 5
    /\ forecast.totalForecast = 700 * 20 * 15

\* C16: getStageAnalytics partitions the input by literal stage with no
\* filtering: every stage value present in the input, recognized or not, is
\* a bucket, every deal appears in exactly one bucket, each bucket's count is
\* the length of its deals list, totalDeals is the input length, the counts
\* sum to totalDeals, and the buckets flattened are a permutation of the
\* input.
C16_StagesPartitionTheInput ==
    pc = "returned" =>
        /\ ~stageStats.threw
        /\ LET buckets == stageStats.value.stageAnalytics
           IN  /\ DOMAIN buckets = {deals[i].stage : i \in DOMAIN deals}
               /\ \A stage \in DOMAIN buckets :
                   /\ buckets[stage].count = Len(buckets[stage].deals)
                   /\ \A i \in DOMAIN buckets[stage].deals :
                          buckets[stage].deals[i].stage = stage
               /\ stageStats.value.totalDeals = Len(deals)
               /\ SumOver(DOMAIN buckets,
                          [stage \in DOMAIN buckets |-> buckets[stage].count])
                      = stageStats.value.totalDeals
               /\ \A deal \in Range(deals) :
                      Occurrences(buckets[deal.stage].deals, deal)
                          = Occurrences(deals, deal)

WholeDaysInStage(deal) ==
    IF deal.updated_date < deal.created_date THEN 0
    ELSE CHOOSE d \in 0..((deal.updated_date - deal.created_date) \div DAY + 1) :
             /\ d * DAY <= deal.updated_date - deal.created_date
             /\ deal.updated_date - deal.created_date < (d + 1) * DAY

\* the positions of the input deals in a stage
PositionsOfStage(stage) == {i \in DOMAIN deals : deals[i].stage = stage}

\* C18: a deal's daysInStage is max(0, floor((updated_date - created_date) /
\* 1 day)), never negative even when updated_date precedes created_date;
\* each emitted stage row has dealCount equal to the number of input deals
\* in that stage and avgDays equal to the arithmetic mean of their
\* daysInStage, so avgDays >= 0.
C18_RowsAverageWholeDays ==
    /\ \A i \in DOMAIN deals :
           /\ daysInStage(deals[i]) = WholeDaysInStage(deals[i])
           /\ daysInStage(deals[i]) >= 0
    /\ (pc = "returned" /\ ~velocity.threw) =>
        LET rows == velocity.value.stageVelocityData
        IN  \A r \in DOMAIN rows :
                LET positions == PositionsOfStage(rows[r].stage)
                    days == [i \in DOMAIN deals |-> WholeDaysInStage(deals[i])]
                IN  /\ rows[r].dealCount = Cardinality(positions)
                    /\ rows[r].avgDays.den > 0
                    /\ rows[r].avgDays.num >= 0
                    /\ rows[r].avgDays.num * Cardinality(positions)
                           = SumOver(positions, days) * rows[r].avgDays.den

\* two prospects, one updated ten and a half days after its creation, one
\* updated before its creation: 10 days over 2 deals
C18_Witness ==
    /\ pc = "returned"
    /\ Len(deals) = 2
    /\ deals[1].stage = "prospect"
    /\ deals[2].stage = "prospect"
    /\ deals[1].updated_date - deals[1].created_date = 10 * DAY + DAY \div 2
    /\ deals[2].updated_date < deals[2].created_date
    /\ ~velocity.threw
    /\ velocity.value.stageVelocityData
           = <<[stage |-> "prospect", avgDays |-> Ratio(10, 2),
                dealCount |-> 2]>>

\* C19: the velocity output contains exactly one row for each stage of the
\* fixed list [prospect, qualified, proposal, negotiation, closed_won,
\* closed_lost] that has at least one deal in the input, no row for a stage
\* without deals, and the rows are in that fixed order whatever the order of
\* the input.
C19_RowsFollowStageOrder ==
    pc = "returned" =>
        /\ ~velocity.threw
        /\ [r \in DOMAIN velocity.value.stageVelocityData |->
                velocity.value.stageVelocityData[r].stage]
               = SelectSeq(<<"prospect", "qualified", "proposal",
                             "negotiation", "closed_won", "closed_lost">>,
                           LAMBDA stage : PositionsOfStage(stage) # {})

\* the overall average is the mean of the whole days of the input deals at
\* the given positions, and 0 when there is none
OverallIsMeanOver(positions) ==
    (pc = "returned" /\ ~velocity.threw) =>
        LET overall == velocity.value.overallAvgVelocity
            days == [i \in DOMAIN deals |-> WholeDaysInStage(deals[i])]
        IN  IF positions = {} THEN overall = Zero
            ELSE /\ overall.den > 0
                 /\ overall.num * Cardinality(positions)
                        = SumOver(positions, days) * overall.den

-----------------------------------------------------------------------------
(* Risk level of the at-risk rows: AtRiskDeals.tsx                          *)

\* mutant: the tiers start one day late
getRiskLevelStrict(days) ==
    IF days > 60 THEN "High"
    ELSE IF days > 40 THEN "Medium"
    ELSE "Low"

getRiskLevel(days) ==
    IF days >= 60 THEN "High"
    ELSE IF days >= 40 THEN "Medium"
    ELSE "Low"

\* Deals whose ages sit on both sides of the 21-day threshold and of the 40-
\* and 60-day tiers, and a closed deal of any age.
RiskLevelDeals(t) ==
    {Deal(k[1], "air", "Alice", CityCA, 1, t - k[2]) :
        k \in {<<"prospect", STALLED_DAYS_THRESHOLD * DAY - 1>>,
               <<"prospect", STALLED_DAYS_THRESHOLD * DAY>>,
               <<"qualified", 22 * DAY>>,
               <<"prospect", 40 * DAY - 1>>,
               <<"prospect", 40 * DAY>>,
               <<"qualified", 60 * DAY - 1>>,
               <<"prospect", 60 * DAY>>,
               <<"unknown_stage", 100 * DAY>>,
               <<"closed_lost", 70 * DAY>>}}

InitRiskTable ==
    /\ pc = "call"
    /\ now = NowTime
    /\ deals \in SeqsUpTo(RiskLevelDeals(now), MaxDeals)
    /\ originCity = Null
    /\ route = "none"
    /\ NothingReturned

\* the table rows: getRiskLevel(deal.daysSinceUpdate) for each listed deal
RenderAtRiskRows ==
    /\ pc = "returned"
    /\ riskLevels' = [i \in DOMAIN atRisk |->
                         getRiskLevel(atRisk[i].daysSinceUpdate)]
    /\ pc' = "rendered"
    /\ UNCHANGED <<deals, winRates, territories, originCity, stateCode,
                   territory, now, atRisk, route, findCalls, responses,
                   stageStats, forecast, velocity>>
    /\ UNCHANGED <<view, selectedTerritory, selectedTerritoryState, activeFilters>>
    /\ UNCHANGED <<sortField, sortDirection, sortedRows>>
    /\ UNCHANGED <<loading, error, data, fetchResult>>

NextRiskTable ==
    \/ ComputeAtRiskDeals
    \/ RenderAtRiskRows

SpecRiskTable == InitRiskTable /\ [][NextRiskTable]_vars

\* position of a risk level in the order Low, Medium, High
LevelRank(level) ==
    CASE level = "Low" -> 1 [] level = "Medium" -> 2 [] level = "High" -> 3

\* C21: the risk level of a listed deal is a function of daysSinceUpdate only
\* and is no part of the filter: 60 days or more is High, 40 to 59 Medium,
\* anything else Low; every listed deal has exactly one level, the level is
\* monotone in the days, and as listed deals have 21 days or more, Low is
\* exactly 21..39.
C21_RiskLevelByDays ==
    pc = "rendered" =>
        /\ DOMAIN riskLevels = DOMAIN atRisk
        /\ Len(atRisk) = Cardinality({i \in DOMAIN deals :
                                         IsStalledOpenDeal(deals[i], now)})
        /\ \A i \in DOMAIN atRisk :
            LET days == atRisk[i].daysSinceUpdate
            IN  /\ riskLevels[i] \in {"Low", "Medium", "High"}
                /\ riskLevels[i] = "High" <=> days >= 60
                /\ riskLevels[i] = "Medium" <=> (days >= 40 /\ days < 60)
                /\ riskLevels[i] = "Low" <=> days \in 21..39
        /\ \A i, j \in DOMAIN atRisk :
               atRisk[i].daysSinceUpdate <= atRisk[j].daysSinceUpdate
                   => LevelRank(riskLevels[i]) <= LevelRank(riskLevels[j])

\* rows of 60, 40 and 39 days
C21_Witness ==
    /\ pc = "rendered"
    /\ Len(atRisk) = 3
    /\ atRisk[1].daysSinceUpdate = 60 /\ riskLevels[1] = "High"
    /\ atRisk[2].daysSinceUpdate = 40 /\ riskLevels[2] = "Medium"
    /\ atRisk[3].daysSinceUpdate = 39 /\ riskLevels[3] = "Low"


-----------------------------------------------------------------------------
(* Further properties of getWinRates and getTerritoryAnalytics              *)

\* C22: every bucket getWinRates emits has wins + losses >= 1: a bucket is
\* materialized only when a win or a loss is counted under its key, so the
\* winRate of an emitted bucket is never the 0 of the total = 0 branch.
C22_EmittedBucketsHaveClosedDeals ==
    pc = "returned" =>
        \A obj \in {winRates.byTransportationMode, winRates.bySalesRep} :
            \A k \in DOMAIN obj :
                /\ obj[k].wins + obj[k].losses >= 1
                /\ obj[k].winRate = Ratio(obj[k].wins,
                                          obj[k].wins + obj[k].losses)

\* a bucket was emitted for one mode while the list holds a deal that is not
\* closed under another mode, which has no bucket
C22_Witness ==
    /\ pc = "returned"
    /\ DOMAIN winRates.byTransportationMode = {"air"}
    /\ \E i \in DOMAIN deals :
           /\ ~IsClosedDeal(deals[i])
           /\ deals[i].transportation_mode = "rail"


-----------------------------------------------------------------------------
(* Territory dashboard: src/components/territories/TerritoryDashboard.tsx   *)
(* and the filter handlers of DealList                                      *)

\* the null of a string | null state whose values are plain strings
NoSelection == "null"

\* the deals behind /api/stats/territories and /api/deals while the views
\* are on screen
LoadedDeals ==
    <<Deal("closed_won", "air", "Alice", CityCA, 5, 0),
      Deal("closed_lost", "rail", "Bob", CityHI, 3, 0),
      Deal("prospect", "air", "Bob", CityNoState, 2, 0)>>

\* const stateToTerritoryMap: Record<string, string> of TerritoryDashboard
stateToTerritoryMap ==
    (<<"C", "A">> :> "Pacific") @@ (<<"W", "A">> :> "Pacific") @@
    (<<"O", "R">> :> "Pacific") @@ (<<"H", "I">> :> "Pacific") @@
    (<<"A", "K">> :> "Pacific") @@ (<<"C", "O">> :> "Mountain") @@
    (<<"U", "T">> :> "Mountain") @@ (<<"M", "T">> :> "Mountain") @@
    (<<"I", "D">> :> "Mountain") @@ (<<"W", "Y">> :> "Mountain") @@
    (<<"N", "V">> :> "Mountain") @@ (<<"A", "Z">> :> "Mountain") @@
    (<<"N", "M">> :> "Mountain") @@ (<<"F", "L">> :> "Southeast") @@
    (<<"G", "A">> :> "Southeast") @@ (<<"S", "C">> :> "Southeast") @@
    (<<"N", "C">> :> "Southeast") @@ (<<"V", "A">> :> "Southeast") @@
    (<<"W", "V">> :> "Southeast") @@ (<<"K", "Y">> :> "Southeast") @@
    (<<"T", "N">> :> "Southeast") @@ (<<"M", "S">> :> "Southeast") @@
    (<<"A", "L">> :> "Southeast") @@ (<<"L", "A">> :> "Southeast") @@
    (<<"A", "R">> :> "Southeast") @@ (<<"I", "L">> :> "Midwest") @@
    (<<"I", "N">> :> "Midwest") @@ (<<"O", "H">> :> "Midwest") @@
    (<<"M", "I">> :> "Midwest") @@ (<<"W", "I">> :> "Midwest") @@
    (<<"M", "N">> :> "Midwest") @@ (<<"I", "A">> :> "Midwest") @@
    (<<"M", "O">> :> "Midwest") @@ (<<"K", "S">> :> "Midwest") @@
    (<<"N", "E">> :> "Midwest") @@ (<<"S", "D">> :> "Midwest") @@
    (<<"N", "D">> :> "Midwest") @@ (<<"N", "Y">> :> "Northeast") @@
    (<<"P", "A">> :> "Northeast") @@ (<<"N", "J">> :> "Northeast") @@
    (<<"C", "T">> :> "Northeast") @@ (<<"R", "I">> :> "Northeast") @@
    (<<"M", "A">> :> "Northeast") @@ (<<"V", "T">> :> "Northeast") @@
    (<<"N", "H">> :> "Northeast") @@ (<<"M", "E">> :> "Northeast") @@
    (<<"D", "E">> :> "Northeast") @@ (<<"M", "D">> :> "Northeast") @@
    (<<"D", "C">> :> "Northeast") @@ (<<"T", "X">> :> "Southwest") @@
    (<<"O", "K">> :> "Southwest")

\* deal.origin_city.match(/,\s*([A-Z]{2})$/), state && stateToTerritoryMap[
\* state] ? stateToTerritoryMap[state] : "Other"
DashboardTerritoryOf(deal) ==
    LET state == extractStateFromOriginCity(deal.origin_city)
    IN  IF state # Null /\ state \in DOMAIN stateToTerritoryMap
        THEN stateToTerritoryMap[state]
        ELSE "Other"

\* one step of the forEach of fetchDealsData over the deals of the stages
AddTerritoryMode(territoryModes, deal) ==
    IF deal.transportation_mode = "" THEN territoryModes
    ELSE LET t == DashboardTerritoryOf(deal)
             withSet == IF t \in DOMAIN territoryModes THEN territoryModes
                        ELSE (t :> {}) @@ territoryModes
         IN  [withSet EXCEPT ![t] = @ \cup {deal.transportation_mode}]

RECURSIVE TerritoryModesForEach(_, _)
TerritoryModesForEach(territoryModes, seq) ==
    IF seq = <<>> THEN territoryModes
    ELSE TerritoryModesForEach(AddTerritoryMode(territoryModes, Head(seq)),
                               Tail(seq))

\* the territoryToModesMap state after fetchDealsData: /api/deals answers
\* with getStageAnalytics of the deals; when that fails the response is not
\* ok and the map keeps its initial {}
territoryToModesMap(ds) ==
    IF getStageAnalytics(ds).threw THEN EmptyObject
    ELSE TerritoryModesForEach(EmptyObject, ds)


\* the string a character sequence stands for, for the state codes the
\* cities of the model carry
CodeText(code) ==
    CASE code = <<"C", "A">> -> "CA"
      [] code = <<"W", "A">> -> "WA"
      [] code = <<"H", "I">> -> "HI"

\* activeFilters.findIndex((f) => f.id === id), counted from 1; 0 for -1
IndexOfFilter(filters, id) ==
    IF \E i \in DOMAIN filters : filters[i].id = id
    THEN Min({i \in DOMAIN filters : filters[i].id = id})
    ELSE 0

\* activeFilters.filter((f) => f.id !== id)
WithoutFilterId(filters, id) == SelectSeq(filters, LAMBDA f : f.id # id)

\* mutant: the entry is appended whether or not the id is active
SetFilterAppend(filters, entry) == Append(filters, entry)

\* the entry replaces the active entry of its id in place, or is appended
SetFilter(filters, entry) ==
    LET existingFilterIndex == IndexOfFilter(filters, entry.id)
    IN  IF existingFilterIndex > 0
        THEN [filters EXCEPT ![existingFilterIndex] = entry]
        ELSE Append(filters, entry)

\* activeFilters.filter((f) => !(f.id === filter.id && f.value ===
\* filter.value))
WithoutFilter(filters, filter) ==
    SelectSeq(filters,
              LAMBDA f : ~(f.id = filter.id /\ f.value = filter.value))

\* mutant: removing the territory chip leaves the selection alone
SelectedAfterRemoveKept(selected, filter) == selected

\* if (filter.id === "territory") setSelectedTerritory(null)
SelectedAfterRemove(selected, filter) ==
    IF filter.id = "territory" THEN NoSelection ELSE selected

\* the sales reps of the repBreakdown maps of the territory data
salesReps(territoryData) ==
    UNION {DOMAIN territoryData[t].repBreakdown : t \in DOMAIN territoryData}

\* the transportationModes state after fetchDealsData
transportationModes(ds) ==
    IF getStageAnalytics(ds).threw THEN {}
    ELSE {ds[i].transportation_mode : i \in DOMAIN ds} \ {""}

\* match ? match[1] : "Other" of the territory options of DealList
DealListTerritoryOf(deal) ==
    LET state == extractStateFromOriginCity(deal.origin_city)
    IN  IF state = Null THEN "Other" ELSE CodeText(state)

\* filterConfigs of the view v over the deals ds, the options of a filter
\* as the set of their values
filterConfigs(v, ds) ==
    IF v = "TerritoryDashboard"
    THEN <<[id |-> "salesRep", label |-> "Sales Rep",
            options |-> salesReps(getTerritoryAnalytics(ds))],
           [id |-> "stage", label |-> "Stage",
            options |-> {"closed_won", "closed_lost"}],
           [id |-> "transportationMode", label |-> "Transportation Mode",
            options |-> transportationModes(ds)]>>
    ELSE <<[id |-> "stage", label |-> "Stage",
            options |-> {ds[i].stage : i \in DOMAIN ds}],
           [id |-> "salesRep", label |-> "Sales Rep",
            options |-> {ds[i].sales_rep : i \in DOMAIN ds}],
           [id |-> "transportationMode", label |-> "Transportation Mode",
            options |-> {ds[i].transportation_mode : i \in DOMAIN ds}],
           [id |-> "territory", label |-> "Territory",
            options |-> {DealListTerritoryOf(ds[i]) : i \in DOMAIN ds}]>>

\* handleFilterChange(filterId, value) of the view v, as the new activeFilters
handleFilterChange(v, ds, filters, filterId, value) ==
    IF value = "" THEN WithoutFilterId(filters, filterId)
    ELSE LET configs == filterConfigs(v, ds)
             found == {i \in DOMAIN configs : configs[i].id = filterId}
         IN  IF found = {} THEN filters
             ELSE LET filterConfig == configs[Min(found)]
                  IN  IF v = "DealList" /\ value \notin filterConfig.options
                      THEN filters
                      ELSE SetFilter(filters,
                                     [id |-> filterId, value |-> value,
                                      label |-> filterConfig.label])

\* the value of a filter id in activeFilters, "" when the id is not active
FilterValue(filters, id) ==
    IF IndexOfFilter(filters, id) = 0 THEN ""
    ELSE filters[IndexOfFilter(filters, id)].value

\* the filteredTerritoryData memo with an empty search box
filteredTerritoryData(territoryData, filters, modesMap) ==
    IF Len(filters) = 0 THEN territoryData
    ELSE LET Passes(t) ==
                 LET stats == territoryData[t]
                     territoryFilter == FilterValue(filters, "territory")
                     salesRepFilter == FilterValue(filters, "salesRep")
                     stageFilter == FilterValue(filters, "stage")
                     modeFilter == FilterValue(filters, "transportationMode")
                 IN  /\ territoryFilter # "" => territoryFilter = t
                     /\ salesRepFilter # ""
                            => salesRepFilter \in DOMAIN stats.repBreakdown
                     /\ stageFilter = "closed_won" => stats.wins # 0
                     /\ stageFilter = "closed_lost" => stats.losses # 0
                     /\ modeFilter # ""
                            => /\ t \in DOMAIN modesMap
                               /\ modeFilter \in modesMap[t]
         IN  [t \in {u \in DOMAIN territoryData : Passes(u)} |->
                 territoryData[t]]


\* setSelectedTerritory(territory === selectedTerritory ? null : territory),
\* the toggle both handleTerritorySelect functions apply to their own state
ToggleSelection(selected, t) == IF t = selected THEN NoSelection ELSE t

\* the activeFilters handleTerritorySelect of the dashboard sets
FiltersAfterSelect(filters, selected, t) ==
    IF t = selected THEN WithoutFilterId(filters, "territory")
    ELSE SetFilter(filters,
                   [id |-> "territory", value |-> t, label |-> "Territory"])

InitFilterViews ==
    /\ pc = "call"
    /\ deals = LoadedDeals
    /\ originCity = Null
    /\ now = 0
    /\ route = "none"
    /\ NothingReturned

\* the page shows one of the two views, its data loaded; the child components
\* mount with the initial state of the view
MountView ==
    /\ pc = "call"
    /\ view' \in {"TerritoryDashboard", "DealList"}
    /\ pc' = "mounted"
    /\ UNCHANGED <<deals, winRates, territories, originCity, stateCode,
                   territory, now, atRisk, route, findCalls, responses,
                   stageStats, forecast, velocity, riskLevels,
                   selectedTerritory, selectedTerritoryState, activeFilters>>
    /\ UNCHANGED <<sortField, sortDirection, sortedRows>>
    /\ UNCHANGED <<loading, error, data, fetchResult>>

\* a click on a row or a card of TerritoryPerformanceOverview, which lists
\* the filtered territories: handleTerritorySelect of the dashboard
HandleTerritorySelect ==
    /\ pc = "mounted"
    /\ view = "TerritoryDashboard"
    /\ \E t \in DOMAIN filteredTerritoryData(getTerritoryAnalytics(deals),
                                             activeFilters,
                                             territoryToModesMap(deals)) :
        /\ selectedTerritory' = ToggleSelection(selectedTerritory, t)
        /\ activeFilters' = FiltersAfterSelect(activeFilters,
                                               selectedTerritory, t)
    /\ UNCHANGED <<pc, deals, winRates, territories, originCity, stateCode,
                   territory, now, atRisk, route, findCalls, responses,
                   stageStats, forecast, velocity, riskLevels, view,
                   selectedTerritoryState>>
    /\ UNCHANGED <<sortField, sortDirection, sortedRows>>
    /\ UNCHANGED <<loading, error, data, fetchResult>>

\* a click on a state of the US map: handleTerritorySelect of
\* TerritoryMapVisualization, which sets the state of that component only
MapHandleTerritorySelect ==
    /\ pc = "mounted"
    /\ view = "TerritoryDashboard"
    /\ \E t \in {"Pacific", "Mountain", "Midwest", "Northeast", "Southeast",
                 "Southwest", "Other"} :
        selectedTerritoryState' = ToggleSelection(selectedTerritoryState, t)
    /\ UNCHANGED <<pc, deals, winRates, territories, originCity, stateCode,
                   territory, now, atRisk, route, findCalls, responses,
                   stageStats, forecast, velocity, riskLevels, view,
                   selectedTerritory, activeFilters>>
    /\ UNCHANGED <<sortField, sortDirection, sortedRows>>
    /\ UNCHANGED <<loading, error, data, fetchResult>>

\* a choice in one of the dropdowns of FilterBar, the empty option included
HandleFilterChange ==
    /\ pc = "mounted"
    /\ \E i \in DOMAIN filterConfigs(view, deals) :
        \E value \in filterConfigs(view, deals)[i].options \cup {""} :
            activeFilters' =
                handleFilterChange(view, deals, activeFilters,
                                   filterConfigs(view, deals)[i].id, value)
    /\ UNCHANGED <<pc, deals, winRates, territories, originCity, stateCode,
                   territory, now, atRisk, route, findCalls, responses,
                   stageStats, forecast, velocity, riskLevels, view,
                   selectedTerritory, selectedTerritoryState>>
    /\ UNCHANGED <<sortField, sortDirection, sortedRows>>
    /\ UNCHANGED <<loading, error, data, fetchResult>>

\* a click on the cross of a chip: handleFilterRemove; DealList has no
\* selected territory to clear
HandleFilterRemove ==
    /\ pc = "mounted"
    /\ \E i \in DOMAIN activeFilters :
        /\ activeFilters' = WithoutFilter(activeFilters, activeFilters[i])
        /\ selectedTerritory' =
               IF view = "TerritoryDashboard"
               THEN SelectedAfterRemove(selectedTerritory, activeFilters[i])
               ELSE selectedTerritory
    /\ UNCHANGED <<pc, deals, winRates, territories, originCity, stateCode,
                   territory, now, atRisk, route, findCalls, responses,
                   stageStats, forecast, velocity, riskLevels, view,
                   selectedTerritoryState>>
    /\ UNCHANGED <<sortField, sortDirection, sortedRows>>
    /\ UNCHANGED <<loading, error, data, fetchResult>>

\* "Clear all", shown while a filter is active
HandleClearAllFilters ==
    /\ pc = "mounted"
    /\ Len(activeFilters) > 0
    /\ activeFilters' = <<>>
    /\ selectedTerritory' = NoSelection
    /\ UNCHANGED <<pc, deals, winRates, territories, originCity, stateCode,
                   territory, now, atRisk, route, findCalls, responses,
                   stageStats, forecast, velocity, riskLevels, view,
                   selectedTerritoryState>>
    /\ UNCHANGED <<sortField, sortDirection, sortedRows>>
    /\ UNCHANGED <<loading, error, data, fetchResult>>

NextFilterViews ==
    \/ MountView
    \/ HandleTerritorySelect
    \/ MapHandleTerritorySelect
    \/ HandleFilterChange
    \/ HandleFilterRemove
    \/ HandleClearAllFilters

SpecFilterViews == InitFilterViews /\ [][NextFilterViews]_vars



-----------------------------------------------------------------------------
(* Properties of the filterable views                                       *)

\* C23: after any sequence of territory selections every child of the
\* dashboard that displays a selection shows the dashboard's
\* selectedTerritory.  The overview, the grid of the map component and the
\* sales-rep table display the selectedTerritory prop itself; the embedded
\* US map displays selectedTerritoryState.  Selecting the selected territory
\* again deselects it in all of them.
C23_ChildrenShowDashboardSelection ==
    view = "TerritoryDashboard" => selectedTerritoryState = selectedTerritory


-----------------------------------------------------------------------------
(* Consistency of the rep breakdown of getTerritoryAnalytics                *)

\* C28: for every territory T of the output of getTerritoryAnalytics the rep
\* breakdown is consistent with the totals: the wins of T are the sum of the
\* wins over the entries of T's repBreakdown, likewise the losses, and a
\* rep's counts under T reflect the deals resolved to T only.
C28_RepBreakdownSumsToTerritoryTotals ==
    pc = "returned" =>
        \A t \in DOMAIN territories :
            LET reps == territories[t].repBreakdown
                closedOf(rep, stage) ==
                    Cardinality({i \in DOMAIN deals :
                                    /\ ResolvedTerritory(deals[i]) = t
                                    /\ deals[i].sales_rep = rep
                                    /\ deals[i].stage = stage})
            IN  /\ territories[t].wins
                       = SumOver(DOMAIN reps,
                                 [rep \in DOMAIN reps |-> reps[rep].wins])
                /\ territories[t].losses
                       = SumOver(DOMAIN reps,
                                 [rep \in DOMAIN reps |-> reps[rep].losses])
                /\ \A rep \in DOMAIN reps :
                       /\ reps[rep].wins = closedOf(rep, "closed_won")
                       /\ reps[rep].losses = closedOf(rep, "closed_lost")


\* the entries of the filters other than those of the id
OtherFilters(filters, id) == SelectSeq(filters, LAMBDA f : f.id # id)

\* C26: in TerritoryDashboard, after any sequence of user actions,
\* selectedTerritory is t exactly when activeFilters holds an entry of id
\* "territory" and value t, and it is null exactly when activeFilters holds no
\* entry of id "territory".
C26_SelectionMatchesTerritoryFilter ==
    view = "TerritoryDashboard" =>
        /\ \A t \in DOMAIN getTerritoryAnalytics(deals) :
               selectedTerritory = t
                   <=> \E i \in DOMAIN activeFilters :
                           /\ activeFilters[i].id = "territory"
                           /\ activeFilters[i].value = t
        /\ selectedTerritory = NoSelection
               <=> IndexOfFilter(activeFilters, "territory") = 0

\* a territory was selected, another filter was set, and the territory chip
\* was removed again while the other filter stayed
C26_Witness ==
    /\ view = "TerritoryDashboard"
    /\ selectedTerritory = NoSelection
    /\ selectedTerritoryState = NoSelection
    /\ Len(activeFilters) = 2
    /\ activeFilters[1].id = "transportationMode"
    /\ activeFilters[2].id = "salesRep"

\* a territory is selected behind two other filters
C26_WitnessSelected ==
    /\ view = "TerritoryDashboard"
    /\ selectedTerritory = "Pacific"
    /\ Len(activeFilters) = 3
    /\ activeFilters[3].id = "territory"

\* what one choice in a dropdown does to the active filters
FilterChangeKeepsOneEntryPerId(filterId, value) ==
    LET after == handleFilterChange(view, deals, activeFilters, filterId,
                                    value)
        before == IndexOfFilter(activeFilters, filterId)
    IN  /\ OtherFilters(after, filterId)
               = OtherFilters(activeFilters, filterId)
        /\ value = "" => IndexOfFilter(after, filterId) = 0
        /\ value # ""
               => /\ Cardinality({i \in DOMAIN after :
                                     after[i].id = filterId}) = 1
                  /\ IF before > 0
                     THEN /\ Len(after) = Len(activeFilters)
                          /\ after[before].id = filterId
                          /\ after[before].value = value
                     ELSE /\ Len(after) = Len(activeFilters) + 1
                          /\ after[Len(after)].id = filterId
                          /\ after[Len(after)].value = value

\* C27: in both filterable views activeFilters holds at most one entry per
\* filter id; choosing a value for an id that has an entry replaces that
\* entry in place, choosing the empty value removes the entry of the id, a
\* change to one id leaves the entries of the other ids as they are, and
\* clear-all empties the list.
C27_OneEntryPerFilterId ==
    /\ [](pc = "mounted" =>
            /\ \A i, j \in DOMAIN activeFilters :
                   activeFilters[i].id = activeFilters[j].id => i = j
            /\ \A c \in DOMAIN filterConfigs(view, deals) :
                   \A value \in filterConfigs(view, deals)[c].options
                                    \cup {""} :
                       FilterChangeKeepsOneEntryPerId(
                           filterConfigs(view, deals)[c].id, value))
    /\ [][HandleClearAllFilters => activeFilters' = <<>>]_vars

\* DealList with three filters active, the first of which has another
\* option to be replaced by
C27_Witness ==
    /\ view = "DealList"
    /\ Len(activeFilters) = 3
    /\ \E c \in DOMAIN filterConfigs(view, deals) :
           /\ filterConfigs(view, deals)[c].id = activeFilters[1].id
           /\ filterConfigs(view, deals)[c].options
                  # {activeFilters[1].value}


-----------------------------------------------------------------------------
(* src/components/territories/SalesRepPerformance.tsx and                   *)
(* TerritoryPerformanceOverview.tsx : the sortable tables                   *)

\* a list without the later occurrences of its elements
RECURSIVE DistinctInOrder(_)
DistinctInOrder(seq) ==
    IF seq = <<>> THEN <<>>
    ELSE LET front == DistinctInOrder(SubSeq(seq, 1, Len(seq) - 1))
             last == seq[Len(seq)]
         IN  IF \E i \in DOMAIN front : front[i] = last THEN front
             ELSE Append(front, last)

\* Object.entries lists the own string keys of an object in the order of
\* their creation: the keys of obj in the order the code first assigned them
ObjectKeys(obj, assigned) ==
    SelectSeq(DistinctInOrder(assigned), LAMBDA k : k \in DOMAIN obj)

\* the keys of the result of getTerritoryAnalytics in Object.entries order
TerritoryKeys(ds) ==
    ObjectKeys(getTerritoryAnalytics(ds),
               [i \in DOMAIN ds |->
                   getTerritory(extractStateFromOriginCity(
                                    ds[i].origin_city))])

\* the keys of the repBreakdown of territory t in Object.entries order
RepKeys(ds, t) ==
    LET ofTerritory ==
            SelectSeq(ds, LAMBDA d :
                getTerritory(extractStateFromOriginCity(d.origin_city)) = t)
    IN  ObjectKeys(getTerritoryAnalytics(ds)[t].repBreakdown,
                   [i \in DOMAIN ofTerritory |-> ofTerritory[i].sales_rep])

\* mutant: a rep without closed deals gets the rate 0
RepWinRateGuarded(wins, losses) ==
    IF wins + losses = 0 THEN Zero ELSE Ratio(wins, wins + losses)

\* wins / (wins + losses) as SalesRepPerformance computes it; the quotient
\* 0 / 0 is NaN, kept as the quotient of denominator 0
RepWinRate(wins, losses) ==
    Ratio(wins, wins + losses)

\* the body of Object.entries(stats.repBreakdown).forEach(...) on repMap,
\* kept as the list of its values in insertion order
AddRep(repMap, t, repName, repStats) ==
    LET found == {i \in DOMAIN repMap : repMap[i].name = repName}
    IN  IF found # {}
        THEN LET i == Min(found)
                 existingRep == repMap[i]
                 totalWins == existingRep.totalWins + repStats.wins
                 totalLosses == existingRep.totalLosses + repStats.losses
             IN  [repMap EXCEPT ![i] =
                     [name |-> repName,
                      territories |->
                          IF \E k \in DOMAIN existingRep.territories :
                                 existingRep.territories[k] = t
                          THEN existingRep.territories
                          ELSE Append(existingRep.territories, t),
                      totalWins |-> totalWins,
                      totalLosses |-> totalLosses,
                      winRate |-> RepWinRate(totalWins, totalLosses)]]
        ELSE Append(repMap,
                    [name |-> repName,
                     territories |-> <<t>>,
                     totalWins |-> repStats.wins,
                     totalLosses |-> repStats.losses,
                     winRate |-> RepWinRate(repStats.wins, repStats.losses)])

\* Object.entries(stats.repBreakdown).forEach(...) for the territory t
RECURSIVE RepsForEach(_, _, _, _)
RepsForEach(repMap, t, repBreakdown, repNames) ==
    IF repNames = <<>> THEN repMap
    ELSE RepsForEach(AddRep(repMap, t, Head(repNames),
                            repBreakdown[Head(repNames)]),
                     t, repBreakdown, Tail(repNames))

\* Object.entries(territoryData).forEach(...) : a territory other than the
\* selected one is skipped
RECURSIVE SalesRepForEach(_, _, _, _)
SalesRepForEach(repMap, ds, selected, names) ==
    IF names = <<>> THEN repMap
    ELSE LET t == Head(names)
         IN  SalesRepForEach(
                 IF selected # NoSelection /\ t # selected THEN repMap
                 ELSE RepsForEach(repMap, t,
                                  getTerritoryAnalytics(ds)[t].repBreakdown,
                                  RepKeys(ds, t)),
                 ds, selected, Tail(names))

\* the salesRepData memo for the territory data of the deals ds
salesRepData(ds, selected) ==
    SalesRepForEach(<<>>, ds, selected, TerritoryKeys(ds))

\* Object.entries(territoryData) of TerritoryPerformanceOverview, an entry
\* as one record
TerritoryEntries(ds) ==
    LET territoryData == getTerritoryAnalytics(ds)
        names == TerritoryKeys(ds)
    IN  [i \in DOMAIN names |->
            [territory |-> names[i],
             wins |-> territoryData[names[i]].wins,
             losses |-> territoryData[names[i]].losses,
             winRate |-> territoryData[names[i]].winRate,
             totalValue |-> territoryData[names[i]].totalValue]]

\* the names of the tables in the order localeCompare gives them
CollationOrder ==
    <<"Alice", "Bob", "Carol", "Midwest", "Mountain", "Northeast", "Other",
      "Pacific", "Southeast", "Southwest">>

\* the sign of an integer
Sign(n) == IF n > 0 THEN 1 ELSE IF n < 0 THEN -1 ELSE 0

\* the numbers a comparator returns: a sign, or NaN
Number(n) == [nan |-> FALSE, sign |-> Sign(n)]

NaN == [nan |-> TRUE, sign |-> 0]

\* a.localeCompare(b)
localeCompare(a, b) ==
    LET rank(x) == CHOOSE i \in DOMAIN CollationOrder :
                       CollationOrder[i] = x
    IN  Number(rank(a) - rank(b))

\* a - b of two quotients; NaN when one of them is 0 / 0
RatioMinus(a, b) ==
    IF a.den = 0 \/ b.den = 0 THEN NaN
    ELSE Number(a.num * b.den - b.num * a.den)

\* sortDirection === "asc" ? comparison : -comparison
Directed(direction, comparison) ==
    IF direction = "asc" THEN comparison
    ELSE [comparison EXCEPT !.sign = 0 - @]

\* the comparator of getSortedTerritories
CompareTerritories(field, direction, a, b) ==
    Directed(direction,
             IF field = "territory"
             THEN localeCompare(a.territory, b.territory)
             ELSE IF field = "winRate"
             THEN RatioMinus(a.winRate, b.winRate)
             ELSE Number(a[field] - b[field]))

\* the comparator of sortedSalesReps
CompareSalesReps(field, direction, a, b) ==
    Directed(direction,
             IF field = "name" THEN localeCompare(a.name, b.name)
             ELSE IF field = "wins" THEN Number(a.totalWins - b.totalWins)
             ELSE IF field = "losses"
             THEN Number(a.totalLosses - b.totalLosses)
             ELSE IF field = "winRate"
             THEN RatioMinus(a.winRate, b.winRate)
             ELSE Number(0))

\* Array.prototype.sort reads the comparator's result as a number, NaN as +0
SortCompare(v, field, direction, a, b) ==
    LET c == IF v = "SalesRepPerformance"
             THEN CompareSalesReps(field, direction, a, b)
             ELSE CompareTerritories(field, direction, a, b)
    IN  IF c.nan THEN 0 ELSE c.sign

\* the comparator is a consistent comparator for the rows
IsConsistentComparator(v, field, direction, rows) ==
    LET cf(i, j) == SortCompare(v, field, direction, rows[i], rows[j])
    IN  \A i, j, k \in DOMAIN rows :
            /\ cf(i, i) = 0
            /\ cf(i, j) < 0 <=> cf(j, i) > 0
            /\ cf(i, j) = 0 /\ cf(j, k) = 0 => cf(i, k) = 0
            /\ cf(i, j) < 0 /\ cf(j, k) < 0 => cf(i, k) < 0
            /\ cf(i, j) > 0 /\ cf(j, k) > 0 => cf(i, k) > 0

\* a row put into a sorted list behind the rows it does not precede
RECURSIVE InsertRow(_, _, _, _, _)
InsertRow(v, field, direction, sorted, row) ==
    IF sorted = <<>> THEN <<row>>
    ELSE IF SortCompare(v, field, direction, row, Head(sorted)) < 0
    THEN <<row>> \o sorted
    ELSE <<Head(sorted)>>
             \o InsertRow(v, field, direction, Tail(sorted), row)

\* the stable sort of the rows
RECURSIVE StableSort(_, _, _, _)
StableSort(v, field, direction, rows) ==
    IF rows = <<>> THEN <<>>
    ELSE InsertRow(v, field, direction,
                   StableSort(v, field, direction,
                              SubSeq(rows, 1, Len(rows) - 1)),
                   rows[Len(rows)])

\* the results Array.prototype.sort may give: the stable sorted order for a
\* consistent comparator, an implementation-defined order otherwise
SortOutcomes(v, field, direction, rows) ==
    IF IsConsistentComparator(v, field, direction, rows)
    THEN {StableSort(v, field, direction, rows)}
    ELSE PermutationsOf(rows)

\* the rows of the table v before sorting
TableRows(v, ds, selected) ==
    IF v = "SalesRepPerformance" THEN salesRepData(ds, selected)
    ELSE TerritoryEntries(ds)

\* the column headers of the table v, the name column first
SortFields(v) ==
    IF v = "SalesRepPerformance"
    THEN <<"name", "wins", "losses", "winRate">>
    ELSE <<"territory", "wins", "losses", "winRate", "totalValue">>

\* the useState initial value of the sort field of the table v
InitialSortField(v) ==
    IF v = "SalesRepPerformance" THEN "winRate" ELSE "totalValue"

\* handleSort(field), as the new sort direction
DirectionAfterSort(v, current, direction, field) ==
    IF field = current
    THEN IF direction = "asc" THEN "desc" ELSE "asc"
    ELSE IF field = SortFields(v)[1] THEN "asc" ELSE "desc"

\* deals that give the tables territories and reps with equal, different and
\* undefined win rates
TableDeals ==
    {Deal("closed_won", "air", "Alice", CityCA, 5, 0),
     Deal("closed_lost", "air", "Carol", CityCA, 3, 0),
     Deal("prospect", "air", "Bob", CityCA, 2, 0),
     Deal("closed_won", "air", "Bob", CityNoState, 1, 0)}

\* the longest deal list of the tables
MaxTableDeals == 3

InitTables ==
    /\ pc = "call"
    /\ deals \in SeqsUpTo(TableDeals, MaxTableDeals)
    /\ originCity = Null
    /\ now = 0
    /\ route = "none"
    /\ NothingReturned

\* one of the two tables mounts with the territory data of the deals and
\* renders its rows in the initial order
MountTable ==
    /\ pc = "call"
    /\ pc' = "mounted"
    /\ view' \in {"TerritoryPerformanceOverview", "SalesRepPerformance"}
    /\ selectedTerritory'
           \in {NoSelection} \cup DOMAIN getTerritoryAnalytics(deals)
    /\ sortField' = InitialSortField(view')
    /\ sortDirection' = "desc"
    /\ sortedRows' \in SortOutcomes(view', sortField', sortDirection',
                                    TableRows(view', deals,
                                              selectedTerritory'))
    /\ UNCHANGED <<deals, winRates, territories, originCity, stateCode,
                   territory, now, atRisk, route, findCalls, responses,
                   stageStats, forecast, velocity, riskLevels,
                   selectedTerritoryState, activeFilters>>
    /\ UNCHANGED <<loading, error, data, fetchResult>>

\* a click on a column header: handleSort, then the table renders again
HandleSort ==
    /\ pc = "mounted"
    /\ view \in {"TerritoryPerformanceOverview", "SalesRepPerformance"}
    /\ \E f \in DOMAIN SortFields(view) :
        /\ sortField' = SortFields(view)[f]
        /\ sortDirection' = DirectionAfterSort(view, sortField,
                                               sortDirection, sortField')
    /\ sortedRows' \in SortOutcomes(view, sortField', sortDirection',
                                    TableRows(view, deals,
                                              selectedTerritory))
    /\ UNCHANGED <<pc, deals, winRates, territories, originCity, stateCode,
                   territory, now, atRisk, route, findCalls, responses,
                   stageStats, forecast, velocity, riskLevels, view,
                   selectedTerritory, selectedTerritoryState, activeFilters>>
    /\ UNCHANGED <<loading, error, data, fetchResult>>

NextTables == MountTable \/ HandleSort

SpecTables == InitTables /\ [][NextTables]_vars


-----------------------------------------------------------------------------
(* Properties of the sortable tables                                        *)

\* the key of a row under a sort field: a name, or a quotient
SortKey(v, field, row) ==
    IF field = "name" THEN row.name
    ELSE IF field = "territory" THEN row.territory
    ELSE IF field = "winRate" THEN row.winRate
    ELSE IF v = "SalesRepPerformance"
    THEN Ratio(IF field = "wins" THEN row.totalWins ELSE row.totalLosses, 1)
    ELSE Ratio(row[field], 1)

\* the key a is strictly greater than the key b
KeyGreater(field, a, b) ==
    IF field \in {"name", "territory"}
    THEN \E i, j \in DOMAIN CollationOrder :
             /\ CollationOrder[i] = a
             /\ CollationOrder[j] = b
             /\ i > j
    ELSE /\ a.den > 0
         /\ b.den > 0
         /\ a.num * b.den > b.num * a.den

\* no row stands before a row that the field and direction put before it
RowsOrdered(v, field, direction, rows) ==
    \A i, j \in DOMAIN rows :
        i < j =>
            LET a == SortKey(v, field, rows[i])
                b == SortKey(v, field, rows[j])
            IN  IF direction = "asc" THEN ~KeyGreater(field, a, b)
                ELSE ~KeyGreater(field, b, a)

\* C24: in each sortable table, a click on the header of the current sort
\* field flips the direction and leaves the field as it is (so that two
\* clicks restore the order); a click on another header makes it the sort
\* field with its default direction, ascending for the name column and
\* descending for the metric columns; and the rows displayed are always the
\* rows of the data, ordered by the current field and direction.
C24_TablesSortedByFieldAndDirection ==
    /\ [](view \in {"TerritoryPerformanceOverview", "SalesRepPerformance"}
            => /\ sortedRows
                   \in PermutationsOf(TableRows(view, deals,
                                                selectedTerritory))
               /\ RowsOrdered(view, sortField, sortDirection, sortedRows))
    /\ [][HandleSort =>
            IF sortField' = sortField
            THEN sortDirection' # sortDirection
            ELSE sortDirection'
                     = IF sortField' \in {"name", "territory"}
                       THEN "asc" ELSE "desc"]_vars

\* no row of the table has an undefined win rate
NoUndefinedWinRate ==
    \A i \in DOMAIN sortedRows : sortedRows[i].winRate.den > 0

\* the territories the sales-rep table aggregates over
TerritoriesInView ==
    IF selectedTerritory = NoSelection
    THEN DOMAIN getTerritoryAnalytics(deals)
    ELSE {selectedTerritory}

\* C29: every row of SalesRepPerformance has totalWins and totalLosses equal
\* to the sums of the rep's wins and losses over the territories in view,
\* and a win rate that is a well-defined number in [0, 1], also for a rep
\* with only open deals: no division by a zero total.
C29_RepRowsHaveWellDefinedWinRate ==
    view = "SalesRepPerformance" =>
        \A i \in DOMAIN sortedRows :
            LET row == sortedRows[i]
                stats == getTerritoryAnalytics(deals)
                with == {t \in TerritoriesInView :
                            row.name \in DOMAIN stats[t].repBreakdown}
            IN  /\ row.totalWins
                       = SumOver(with, [t \in with |->
                                     stats[t].repBreakdown[row.name].wins])
                /\ row.totalLosses
                       = SumOver(with, [t \in with |->
                                     stats[t].repBreakdown[row.name].losses])
                /\ row.winRate.den > 0
                /\ row.winRate.num >= 0
                /\ row.winRate.num <= row.winRate.den


-----------------------------------------------------------------------------
(* The two state-to-territory tables                                        *)

\* C30: the territory TerritoryDashboard assigns to a deal through its own
\* stateToTerritoryMap is the territory under which getTerritoryAnalytics
\* aggregates the deal; hence, with the transportation-mode filter as the
\* only active filter, the territories kept are those with a deal of that
\* mode aggregated under them.
C30_DashboardTerritoryIsAggregatedTerritory ==
    view = "TerritoryDashboard" =>
        /\ \A i \in DOMAIN deals :
               DashboardTerritoryOf(deals[i]) = ResolvedTerritory(deals[i])
        /\ (Len(activeFilters) = 1
                /\ activeFilters[1].id = "transportationMode")
               => DOMAIN filteredTerritoryData(getTerritoryAnalytics(deals),
                                               activeFilters,
                                               territoryToModesMap(deals))
                      = {ResolvedTerritory(deals[i]) :
                             i \in {j \in DOMAIN deals :
                                       deals[j].transportation_mode
                                           = activeFilters[1].value}}


-----------------------------------------------------------------------------
(* The fetch on mount of AtRiskDeals, RevenueForecasting,                   *)
(* DealVelocityMetrics, WinRateTrends and TerritoryDashboard                *)

\* useState<string | null>(null) of the error state
NoError == "null"

\* the components whose effect fetches /api/deals
DealsComponents == {"AtRiskDeals", "RevenueForecasting", "DealVelocityMetrics"}

FetchingComponents ==
    DealsComponents \cup {"WinRateTrends", "TerritoryDashboard"}

\* useState(null) of the data state
NoData == [null |-> TRUE]

\* the useState initial value of the data state of the component v
InitialData(v) == IF v \in DealsComponents THEN <<>> ELSE NoData

\* the deals of the stages of a stageAnalytics object, stage after stage
RECURSIVE FlattenStages(_, _)
FlattenStages(stageAnalytics, stages) ==
    IF stages = <<>> THEN <<>>
    ELSE stageAnalytics[Head(stages)].deals
             \o FlattenStages(stageAnalytics, Tail(stages))

\* the route the component v fetches answers with a success status for the
\* deals ds
RouteSucceeds(v, ds) ==
    v \in DealsComponents => ~getStageAnalytics(ds).threw

\* what the component v makes of the body of the response of its route for
\* the deals ds: the value it stores, or the TypeError of Object.values on
\* the body of a failed route, which has no stageAnalytics
FetchedData(v, ds, result) ==
    IF result # "ok"
    THEN IF v \in DealsComponents THEN TypeError
         ELSE Returned([error |-> "Internal server error"])
    ELSE IF v \in DealsComponents
    THEN LET stageAnalytics == getStageAnalytics(ds).value.stageAnalytics
         IN  Returned(FlattenStages(stageAnalytics,
                                    ObjectKeys(stageAnalytics,
                                               [i \in DOMAIN ds |->
                                                   ds[i].stage])))
    ELSE IF v = "WinRateTrends" THEN Returned(getWinRates(ds))
    ELSE Returned(getTerritoryAnalytics(ds))

\* mutant: a response that is not ok is read like one that is
ResponseNeverThrows(result) == FALSE

\* if (!response.ok) throw new Error(...)
ResponseThrows(result) == result # "ok"

\* the message the catch block of the component v stores
ErrorMessage(v, result) ==
    IF v = "TerritoryDashboard"
    THEN IF result = "rejected"
         THEN "Failed to load territory data: Network error"
         ELSE "Failed to load territory data: Error fetching territory data: 500"
    ELSE IF result = "rejected" THEN "Network error"
    ELSE IF v = "WinRateTrends" THEN "Failed to fetch win rates"
    ELSE "Failed to fetch deals"

\* what the component renders: the early returns on loading and on error
Display(isLoading, err) ==
    IF isLoading THEN "loading"
    ELSE IF err # NoError THEN "error"
    ELSE "data"

\* the deals the repository behind the routes holds
FetchDeals ==
    {Deal("closed_won", "air", "Alice", CityCA, 5, 0),
     Deal("prospect", "air", "Bob", CityNoState, 2, 0),
     Deal("constructor", "air", "Alice", CityCA, 1, 0)}

\* the longest deal list of the repository
MaxFetchDeals == 1

InitFetch ==
    /\ pc = "call"
    /\ deals \in SeqsUpTo(FetchDeals, MaxFetchDeals)
    /\ originCity = Null
    /\ now = 0
    /\ route = "none"
    /\ NothingReturned

\* the component mounts with its initial state and its effect starts the
\* fetch
MountComponent ==
    /\ pc = "call"
    /\ view' \in FetchingComponents
    /\ loading' = TRUE
    /\ error' = NoError
    /\ data' = InitialData(view')
    /\ fetchResult' = "pending"
    /\ pc' = "fetching"
    /\ UNCHANGED <<deals, winRates, territories, originCity, stateCode,
                   territory, now, atRisk, route, findCalls, responses,
                   stageStats, forecast, velocity, riskLevels,
                   selectedTerritory, selectedTerritoryState, activeFilters,
                   sortField, sortDirection, sortedRows>>

\* await fetch(...) rejects
FetchRejects ==
    /\ pc = "fetching"
    /\ fetchResult' = "rejected"
    /\ pc' = "catch"
    /\ UNCHANGED <<deals, winRates, territories, originCity, stateCode,
                   territory, now, atRisk, route, findCalls, responses,
                   stageStats, forecast, velocity, riskLevels, view,
                   selectedTerritory, selectedTerritoryState, activeFilters,
                   sortField, sortDirection, sortedRows, loading, error,
                   data>>

\* await fetch(...) gives a response: the route failed, or it succeeded
FetchResponds ==
    /\ pc = "fetching"
    /\ \/ fetchResult' = "notOk"
       \/ /\ RouteSucceeds(view, deals)
          /\ fetchResult' = "ok"
    /\ pc' = IF ResponseThrows(fetchResult') THEN "catch" ELSE "setData"
    /\ UNCHANGED <<deals, winRates, territories, originCity, stateCode,
                   territory, now, atRisk, route, findCalls, responses,
                   stageStats, forecast, velocity, riskLevels, view,
                   selectedTerritory, selectedTerritoryState, activeFilters,
                   sortField, sortDirection, sortedRows, loading, error,
                   data>>

\* setDeals(allDeals) / setWinRates(data) / setTerritoryData(data) and, in
\* TerritoryDashboard, setError(null)
SetData ==
    /\ pc = "setData"
    /\ LET body == FetchedData(view, deals, fetchResult)
       IN  IF body.threw
           THEN /\ pc' = "catch"
                /\ UNCHANGED <<data, error>>
           ELSE /\ data' = body.value
                /\ error' = IF view = "TerritoryDashboard" THEN NoError
                            ELSE error
                /\ pc' = "finally"
    /\ UNCHANGED <<deals, winRates, territories, originCity, stateCode,
                   territory, now, atRisk, route, findCalls, responses,
                   stageStats, forecast, velocity, riskLevels, view,
                   selectedTerritory, selectedTerritoryState, activeFilters,
                   sortField, sortDirection, sortedRows, loading,
                   fetchResult>>

\* catch (err) { setError(...) }
SetError ==
    /\ pc = "catch"
    /\ error' = ErrorMessage(view, fetchResult)
    /\ pc' = "finally"
    /\ UNCHANGED <<deals, winRates, territories, originCity, stateCode,
                   territory, now, atRisk, route, findCalls, responses,
                   stageStats, forecast, velocity, riskLevels, view,
                   selectedTerritory, selectedTerritoryState, activeFilters,
                   sortField, sortDirection, sortedRows, loading, data,
                   fetchResult>>

\* finally { setLoading(false) }
SetLoadingFalse ==
    /\ pc = "finally"
    /\ loading' = FALSE
    /\ pc' = "settled"
    /\ UNCHANGED <<deals, winRates, territories, originCity, stateCode,
                   territory, now, atRisk, route, findCalls, responses,
                   stageStats, forecast, velocity, riskLevels, view,
                   selectedTerritory, selectedTerritoryState, activeFilters,
                   sortField, sortDirection, sortedRows, error, data,
                   fetchResult>>

NextFetch ==
    \/ MountComponent
    \/ FetchRejects
    \/ FetchResponds
    \/ SetData
    \/ SetError
    \/ SetLoadingFalse

\* a fetch may stay pending for ever; once it has settled the async function
\* runs to its end
SpecFetch ==
    /\ InitFetch
    /\ [][NextFetch]_vars
    /\ WF_vars(SetData)
    /\ WF_vars(SetError)
    /\ WF_vars(SetLoadingFalse)

C25_WitnessData ==
    /\ view = "AtRiskDeals"
    /\ ~loading
    /\ fetchResult = "ok"
    /\ Len(data) = MaxFetchDeals

=============================================================================
